---- MODULE Spec2Model ----
(***************************************************************************)
(* Mafunca: the lazy effect wrappers Eff (mafunca/eff.py, asyncio) and     *)
(* EffSync (mafunca/effsync.py).  An effect object holds one field, the    *)
(* zero-argument callable `effect`.  Every combinator returns a new object *)
(* whose `effect` is a closure `new_effect` over the previous object and   *)
(* the supplied function, so an effect is modelled by the chain of         *)
(* closures it consists of: the body given to the constructor followed by  *)
(* one entry per combinator.  run() invokes the outermost closure; the     *)
(* model executes the closures of a chain from the innermost outwards,     *)
(* which is the order in which their code after `self.effect()` runs.      *)
(*                                                                         *)
(* The event loop is modelled as asyncio schedules it: a coroutine runs    *)
(* without interruption until it awaits something that really suspends (a  *)
(* sleeping coroutine function or asyncio.to_thread); timers (wake-ups and *)
(* the deadline of asyncio.timeout) fire only while the task is suspended. *)
(***************************************************************************)
EXTENDS Integers, Sequences, FiniteSets

VARIABLES
    lib,     \* name of the family of user functions the chain is built from
    eff,     \* the effect object under construction (NoEff before the constructor)
    err,     \* did the most recent constructor/combinator call raise MonadError
    terr,    \* did to_task, called last on the effect, raise MonadError
    runs,    \* the run() invocations in flight, and the ones that returned since
             \* run() was last called; each has its own frames
    nruns,   \* how many times run() has been called
    now,     \* the event loop's clock, read from the start of the oldest run kept
    ncalls,  \* how many times the effect's body (.body) and the functions given
             \* to combinators or made by them (.fn) have been invoked
    tr       \* a chain of Triple method calls: the value it has reached, the
             \* calls made so far and how often they invoked user functions

vars == <<lib, eff, err, terr, runs, nruns, now, ncalls, tr>>
effvars == <<lib, eff, err, terr, runs, nruns, now, ncalls>>

(* Bounds of the model. *)
MaxSteps == 2    \* combinators applied after the constructor
MaxRuns == 2     \* run() calls on the finished effect
MaxOps == 2      \* calls in a chain of Triple methods
MaxCalls == 3    \* calls of curried objects

----------------------------------------------------------------------------
(* Values.  Every Python value is a record whose field t names its type.   *)

Num(n) == [t |-> "int", v |-> n]
Right(n) == [t |-> "Right", v |-> n]
Left(n) == [t |-> "Left", v |-> n]
Nothing == [t |-> "Nothing"]
None == [t |-> "None"]
\* An exception object: its class and a tag telling raise sites apart.
Exc(kind, tag) == [t |-> "err", kind |-> kind, tag |-> tag]
\* An effect object: its class and the closures making up its `effect`.
EffObj(cls, chain) == [t |-> cls, chain |-> chain]
NoEff == None

\* The outcome of a call: a returned value or a raised exception.
Ret(v) == [k |-> "val", v |-> v]
Raise(e) == [k |-> "exc", v |-> e]
\* The outcome of a call that has not been made or has not finished.
Pending == [k |-> "pending"]

\* No Triple chain has been started.
NoChain == [acc |-> None, raised |-> FALSE, hist |-> <<>>, calls |-> 0]

\* MonadError(monad, method, message), exceptions.py; the text is not modelled.
MonadError == Exc("MonadError", 0)
CancelledError == Exc("CancelledError", 0)
TimeoutError == Exc("TimeoutError", 0)

\* `except Exception` matches subclasses of Exception only: KeyboardInterrupt
\* and asyncio.CancelledError derive from BaseException.
IsException(e) == e.kind \notin {"KeyboardInterrupt", "CancelledError"}

\* isinstance(value, Triple)
IsTriple(v) == v.t \in {"Right", "Left", "Nothing"}

\* TUtils.is_bad: isinstance(value, Triple) and not value.is_right
is_bad(value) == IsTriple(value) /\ value.t # "Right"

----------------------------------------------------------------------------
(* User functions.  A function is described by what inspect and the event  *)
(* loop can observe of it: whether it is a coroutine function, how long it *)
(* takes (sleeping when async, blocking when sync), and what it does.      *)

Fn(async, dur, beh, val) == [async |-> async, dur |-> dur, beh |-> beh, val |-> val]

\* One closure of a chain: the combinator that made it and its function.
Step(op, fn) == [op |-> op, fn |-> fn]

\* What calling fn(arg) produces once it completes.
\*   const : lambda *_: val                    inc  : lambda x: x + 1
\*   left  : lambda _: Left(0)                 nothing: lambda _: Nothing()
\*   wrap  : lambda x: Right(x)                raise: raises val
\*   of    : lambda x: C(body returning x), C and the body's kind given by val
\*   defer : lambda *_: asyncio.sleep(0, val), a plain function handing back
\*           an awaitable; what is given here is what the awaitable yields
Apply(fn, arg) ==
    CASE fn.beh = "const" -> Ret(fn.val)
      [] fn.beh = "defer" -> Ret(fn.val)
      [] fn.beh = "inc" ->
            IF arg.t = "int" THEN Ret(Num(arg.v + 1)) ELSE Raise(Exc("TypeError", 0))
      [] fn.beh = "left" -> Ret(Left(0))
      [] fn.beh = "nothing" -> Ret(Nothing)
      [] fn.beh = "wrap" ->
            IF arg.t = "int" THEN Ret(Right(arg.v)) ELSE Raise(Exc("TypeError", 0))
      [] fn.beh = "raise" -> Raise(fn.val)
      [] fn.beh = "of" ->
            \* EffSync.__init__ refuses a coroutine function as body
            IF fn.val.cls = "EffSync" /\ fn.val.async
            THEN Raise(MonadError)
            ELSE Ret(EffObj(fn.val.cls,
                            <<Step("body", Fn(fn.val.async, fn.val.dur, "const", arg))>>))

----------------------------------------------------------------------------
(* Contract guards.  Each is TRUE exactly when the Python helper raises     *)
(* MonadError.                                                              *)

\* eff.py: inspect.iscoroutinefunction(fn)
panic_on_coroutine(fn) == fn.async

\* Mutant: the result is compared with the other effect class.
panic_on_monadic_result_other_class(result, monad) == result.t = "EffSync"

\* eff.py: isinstance(result, monad), monad = self.__class__ = Eff
panic_on_monadic_result(result, monad) == result.t = monad

\* eff.py: not isinstance(result, monad)
panic_on_other_result(result, monad) == result.t # monad

\* common/panics.py, used by EffSync
on_coroutine(fn) == fn.async

on_monadic_result(result, monad) == result.t = monad

on_another_instance(result, monad) == result.t # monad

----------------------------------------------------------------------------
(* The closures.  A closure is given `previous`, the outcome of             *)
(* self.effect(), and `current`, the outcome of its own function (Pending   *)
(* until the function has been called and has finished), and says what it   *)
(* does next: return or raise (DoReturn), call its function (DoCall), or    *)
(* invoke the `effect` of the effect object its function returned (DoRun).  *)

DoReturn(out) == [do |-> "return", out |-> out]
\* how: "call" f(x), "await" _maybe_await(f(x)), "thread" asyncio.to_thread(f, x)
DoCall(fn, arg, how) == [do |-> "call", fn |-> fn, arg |-> arg, how |-> how]
DoRun(e, how) == [do |-> "run", e |-> e, how |-> how]

\* Mutant: map without the is_bad short-circuit.
Eff_map_new_effect_no_short_circuit(fn, previous, current) ==
    IF previous.k = "exc" THEN DoReturn(previous)
    ELSE IF current = Pending THEN DoCall(fn, previous.v, "await")
    ELSE IF current.k = "exc" THEN DoReturn(current)
    ELSE IF panic_on_monadic_result(current.v, "Eff") THEN DoReturn(Raise(MonadError))
    ELSE DoReturn(current)

\* Mutant: map handing the payload of a Right to its function.
Eff_map_new_effect_unwrapping(fn, previous, current) ==
    IF previous.k = "exc" THEN DoReturn(previous)
    ELSE IF is_bad(previous.v) THEN DoReturn(previous)
    ELSE IF current = Pending
    THEN DoCall(fn, IF previous.v.t = "Right" THEN previous.v.v ELSE previous.v, "await")
    ELSE IF current.k = "exc" THEN DoReturn(current)
    ELSE IF panic_on_monadic_result(current.v, "Eff") THEN DoReturn(Raise(MonadError))
    ELSE DoReturn(current)

\* Eff.map.new_effect
Eff_map_new_effect(fn, previous, current) ==
    IF previous.k = "exc" THEN DoReturn(previous)
    ELSE IF is_bad(previous.v) THEN DoReturn(previous)
    ELSE IF current = Pending THEN DoCall(fn, previous.v, "await")
    ELSE IF current.k = "exc" THEN DoReturn(current)
    ELSE IF panic_on_monadic_result(current.v, "Eff") THEN DoReturn(Raise(MonadError))
    ELSE DoReturn(current)

\* Eff.map_to_thread.new_effect
Eff_map_to_thread_new_effect(fn, previous, current) ==
    IF previous.k = "exc" THEN DoReturn(previous)
    ELSE IF is_bad(previous.v) THEN DoReturn(previous)
    ELSE IF current = Pending THEN DoCall(fn, previous.v, "thread")
    ELSE IF current.k = "exc" THEN DoReturn(current)
    ELSE IF panic_on_monadic_result(current.v, "Eff") THEN DoReturn(Raise(MonadError))
    ELSE DoReturn(current)

\* Eff.bind.new_effect
Eff_bind_new_effect(fn, previous, current) ==
    IF previous.k = "exc" THEN DoReturn(previous)
    ELSE IF is_bad(previous.v) THEN DoReturn(previous)
    ELSE IF current = Pending THEN DoCall(fn, previous.v, "await")
    ELSE IF current.k = "exc" THEN DoReturn(current)
    ELSE IF panic_on_other_result(current.v, "Eff") THEN DoReturn(Raise(MonadError))
    ELSE DoRun(current.v, "await")

\* Eff.bind_to_thread.new_effect
Eff_bind_to_thread_new_effect(fn, previous, current) ==
    IF previous.k = "exc" THEN DoReturn(previous)
    ELSE IF is_bad(previous.v) THEN DoReturn(previous)
    ELSE IF current = Pending THEN DoCall(fn, previous.v, "thread")
    ELSE IF current.k = "exc" THEN DoReturn(current)
    ELSE IF panic_on_other_result(current.v, "Eff") THEN DoReturn(Raise(MonadError))
    ELSE DoRun(current.v, "await")

\* Mutant: catch that hands every Exception, MonadError included, to fn.
Eff_catch_new_effect_catch_all(fn, previous, current) ==
    IF previous.k = "val" THEN DoReturn(previous)
    ELSE IF ~IsException(previous.v) THEN DoReturn(previous)
    ELSE IF current = Pending THEN DoCall(fn, previous.v, "await")
    ELSE IF current.k = "exc" THEN DoReturn(current)
    ELSE IF current.v.t = "Eff" THEN DoRun(current.v, "await")
    ELSE DoReturn(current)

\* Mutant: catch that returns the effect its handler made without running it.
Eff_catch_new_effect_no_run(fn, previous, current) ==
    IF previous.k = "val" THEN DoReturn(previous)
    ELSE IF ~IsException(previous.v) THEN DoReturn(previous)
    ELSE IF previous.v.kind \in {"MonadError", "KeyboardInterrupt"} THEN DoReturn(previous)
    ELSE IF current = Pending THEN DoCall(fn, previous.v, "await")
    ELSE DoReturn(current)

\* Mutant: catch that lets a TimeoutError through as it does a MonadError.
Eff_catch_new_effect_spares_timeout(fn, previous, current) ==
    IF previous.k = "val" THEN DoReturn(previous)
    ELSE IF ~IsException(previous.v) THEN DoReturn(previous)
    ELSE IF previous.v.kind \in {"MonadError", "KeyboardInterrupt", "TimeoutError"}
    THEN DoReturn(previous)
    ELSE IF current = Pending THEN DoCall(fn, previous.v, "await")
    ELSE IF current.k = "exc" THEN DoReturn(current)
    ELSE IF current.v.t = "Eff" THEN DoRun(current.v, "await")
    ELSE DoReturn(current)

\* Eff.catch.new_effect
Eff_catch_new_effect(fn, previous, current) ==
    IF previous.k = "val" THEN DoReturn(previous)
    ELSE IF ~IsException(previous.v) THEN DoReturn(previous)
    ELSE IF previous.v.kind \in {"MonadError", "KeyboardInterrupt"} THEN DoReturn(previous)
    ELSE IF current = Pending THEN DoCall(fn, previous.v, "await")
    ELSE IF current.k = "exc" THEN DoReturn(current)
    ELSE IF current.v.t = "Eff" THEN DoRun(current.v, "await")
    ELSE DoReturn(current)

\* Mutant: cleanup in an `except Exception` / else pair, not in finally.
Eff_ensure_new_effect_not_on_cancel(fn, previous, current) ==
    IF previous.k = "exc" /\ ~IsException(previous.v) THEN DoReturn(previous)
    ELSE IF current = Pending THEN DoCall(fn, None, "await")
    ELSE IF current.k = "exc" THEN DoReturn(current)
    ELSE DoReturn(previous)

\* Mutant: the error of the body outlives an error of the cleanup.
Eff_ensure_new_effect_body_error_wins(fn, previous, current) ==
    IF current = Pending THEN DoCall(fn, None, "await")
    ELSE IF previous.k = "exc" THEN DoReturn(previous)
    ELSE IF current.k = "exc" THEN DoReturn(current)
    ELSE DoReturn(previous)

\* Eff.ensure.new_effect
Eff_ensure_new_effect(fn, previous, current) ==
    IF current = Pending THEN DoCall(fn, None, "await")
    ELSE IF current.k = "exc" THEN DoReturn(current)
    ELSE DoReturn(previous)

\* EffSync.map.new_effect
EffSync_map_new_effect(fn, previous, current) ==
    IF previous.k = "exc" THEN DoReturn(previous)
    ELSE IF is_bad(previous.v) THEN DoReturn(previous)
    ELSE IF current = Pending THEN DoCall(fn, previous.v, "call")
    ELSE IF current.k = "exc" THEN DoReturn(current)
    ELSE IF on_monadic_result(current.v, "EffSync") THEN DoReturn(Raise(MonadError))
    ELSE DoReturn(current)

\* EffSync.bind.new_effect
EffSync_bind_new_effect(fn, previous, current) ==
    IF previous.k = "exc" THEN DoReturn(previous)
    ELSE IF is_bad(previous.v) THEN DoReturn(previous)
    ELSE IF current = Pending THEN DoCall(fn, previous.v, "call")
    ELSE IF current.k = "exc" THEN DoReturn(current)
    ELSE IF on_another_instance(current.v, "EffSync") THEN DoReturn(Raise(MonadError))
    ELSE DoRun(current.v, "call")

\* Mutant: catch that returns the effect its handler made without running it.
EffSync_catch_new_effect_no_run(fn, previous, current) ==
    IF previous.k = "val" THEN DoReturn(previous)
    ELSE IF ~IsException(previous.v) THEN DoReturn(previous)
    ELSE IF previous.v.kind \in {"MonadError", "KeyboardInterrupt"} THEN DoReturn(previous)
    ELSE IF current = Pending THEN DoCall(fn, previous.v, "call")
    ELSE DoReturn(current)

\* EffSync.catch.new_effect
EffSync_catch_new_effect(fn, previous, current) ==
    IF previous.k = "val" THEN DoReturn(previous)
    ELSE IF ~IsException(previous.v) THEN DoReturn(previous)
    ELSE IF previous.v.kind \in {"MonadError", "KeyboardInterrupt"} THEN DoReturn(previous)
    ELSE IF current = Pending THEN DoCall(fn, previous.v, "call")
    ELSE IF current.k = "exc" THEN DoReturn(current)
    ELSE IF current.v.t = "EffSync" THEN DoRun(current.v, "call")
    ELSE DoReturn(current)

\* Mutant: cleanup on the success path only.
EffSync_ensure_new_effect_on_success(fn, previous, current) ==
    IF previous.k = "exc" THEN DoReturn(previous)
    ELSE IF current = Pending THEN DoCall(fn, None, "call")
    ELSE IF current.k = "exc" THEN DoReturn(current)
    ELSE DoReturn(previous)

\* EffSync.ensure.new_effect
EffSync_ensure_new_effect(fn, previous, current) ==
    IF current = Pending THEN DoCall(fn, None, "call")
    ELSE IF current.k = "exc" THEN DoReturn(current)
    ELSE DoReturn(previous)

\* The body given to the constructor (or the lambda made by of): how it is
\* invoked is decided by the closure or the runner that calls self.effect().
Body(fn, how, current) ==
    IF current = Pending THEN DoCall(fn, None, how) ELSE DoReturn(current)

\* The closure to execute for one entry of a chain of class cls.
Closure(cls, step, how, previous, current) ==
    CASE step.op = "body" -> Body(step.fn, how, current)
      [] cls = "Eff" /\ step.op = "map" -> Eff_map_new_effect(step.fn, previous, current)
      [] cls = "Eff" /\ step.op = "map_to_thread" -> Eff_map_to_thread_new_effect(step.fn, previous, current)
      [] cls = "Eff" /\ step.op = "bind" -> Eff_bind_new_effect(step.fn, previous, current)
      [] cls = "Eff" /\ step.op = "bind_to_thread" -> Eff_bind_to_thread_new_effect(step.fn, previous, current)
      [] cls = "Eff" /\ step.op = "catch" -> Eff_catch_new_effect(step.fn, previous, current)
      [] cls = "Eff" /\ step.op = "ensure" -> Eff_ensure_new_effect(step.fn, previous, current)
      [] cls = "EffSync" /\ step.op = "map" -> EffSync_map_new_effect(step.fn, previous, current)
      [] cls = "EffSync" /\ step.op = "bind" -> EffSync_bind_new_effect(step.fn, previous, current)
      [] cls = "EffSync" /\ step.op = "catch" -> EffSync_catch_new_effect(step.fn, previous, current)
      [] cls = "EffSync" /\ step.op = "ensure" -> EffSync_ensure_new_effect(step.fn, previous, current)

----------------------------------------------------------------------------
(* One run() invocation.  Its frames are a stack of the effects being       *)
(* executed (the effect run() was called on, and above it the effects that  *)
(* bind or catch obtained from their function); each frame records the      *)
(* closure it is in (pos), the outcome that closure got from self.effect()  *)
(* (prev), whether it has called its function (called) and the outcome of  *)
(* that call (res).  cur is the outcome that travels from one closure to    *)
(* the closure that called it.                                              *)

Frame(e, how) ==
    [cls |-> e.t, chain |-> e.chain, pos |-> 1, prev |-> Pending, called |-> FALSE,
     res |-> Pending, how |-> how]

\* How the body of a frame's effect is invoked: by whoever runs the effect
\* when the body is all there is, otherwise by the closure around it (Eff
\* awaits self.effect(), EffSync calls it).
HowAt(f) ==
    IF f.pos = 1 /\ Len(f.chain) = 1 THEN f.how
    ELSE IF f.cls = "Eff" THEN "await" ELSE "call"

Top(m) == m.stack[Len(m.stack)]

SetTop(m, f) == [m EXCEPT !.stack[Len(m.stack)] = f]

\* The closure at the top frame's position returns or raises `out`.
Complete(m, out) ==
    LET f == Top(m) IN
    [SetTop(m, [f EXCEPT !.pos = f.pos + 1, !.prev = Pending, !.called = FALSE,
                         !.res = Pending])
        EXCEPT !.cur = out,
               !.log = Append(m.log, [ev |-> "step", d |-> Len(m.stack), p |-> f.pos,
                                      cls |-> f.cls, op |-> f.chain[f.pos].op,
                                      fn |-> f.chain[f.pos].fn, prev |-> f.prev,
                                      called |-> f.called,
                                      res |-> f.res, out |-> out])]

\* A frame's chain is exhausted: the effect's outermost closure has returned,
\* and its outcome is handed to the closure that invoked it, which returns it.
Pop(m) ==
    LET below == [m EXCEPT !.stack = SubSeq(m.stack, 1, Len(m.stack) - 1)] IN
    IF below.stack = <<>> THEN below ELSE Complete(below, m.cur)

\* The directive d of the top frame's closure, other than a call.
Finish(m, d) ==
    IF d.do = "return" THEN Complete(m, d.out)
    ELSE [m EXCEPT !.stack = Append(m.stack, Frame(d.e, d.how))]

\* Does awaiting/calling fn this way suspend the task?  asyncio.to_thread
\* always does; an awaited coroutine does when it sleeps; a plain call and a
\* coroutine that never sleeps do not.
Suspends(fn, how) == how = "thread" \/ (how = "await" /\ fn.async /\ fn.dur > 0)

\* Mutant: the result of an async function is used without awaiting it.
Received_not_awaited(fn, arg, how) ==
    IF fn.async THEN Ret([t |-> "coroutine"]) ELSE Apply(fn, arg)

\* What the caller receives from a call that does not suspend.  A coroutine
\* function that is called but not awaited yields a coroutine object.
\* _maybe_await awaits whatever is awaitable, also when a plain function
\* returned it; a plain call leaves the awaitable as it is.
Received(fn, arg, how) ==
    IF how = "call" /\ (fn.async \/ fn.beh = "defer")
    THEN Ret([t |-> "coroutine"]) ELSE Apply(fn, arg)

\* One more invocation: of the body of the effect being run, or of a function.
Count(calls, isBody) ==
    IF isBody THEN [calls EXCEPT !.body = @ + 1] ELSE [calls EXCEPT !.fn = @ + 1]

\* The top frame's closure, given the outcome of self.effect() in m.cur.
Enter(m) ==
    LET f0 == Top(m)
        f == [f0 EXCEPT !.prev = IF f0.pos = 1 THEN Pending ELSE m.cur]
        step == f.chain[f.pos]
        d == Closure(f.cls, step, HowAt(f), f.prev, Pending)
        m1 == SetTop(m, f)
        fc == [f EXCEPT !.called = TRUE]
    IN  IF d.do # "call" THEN Finish(m1, d)
        ELSE
          LET m2 == [SetTop(m, fc) EXCEPT !.calls = Count(m.calls, Len(m.stack) = 1 /\ f.pos = 1),
                               !.log = Append(m.log, [ev |-> "call", d |-> Len(m.stack),
                                                      p |-> f.pos, cls |-> f.cls,
                                                      op |-> step.op, how |-> d.how,
                                                      susp |-> Suspends(d.fn, d.how),
                                                      at |-> m.clock,
                                                      until |-> m.clock + d.fn.dur])]
          IN  IF Suspends(d.fn, d.how)
              THEN [m2 EXCEPT !.status = "sleep", !.pend = Apply(d.fn, d.arg),
                              !.thread = (d.how = "thread"),
                              !.wake = m.clock + d.fn.dur]
              ELSE LET got == Received(d.fn, d.arg, d.how)
                       m3 == [SetTop(m2, [fc EXCEPT !.res = got])
                                 EXCEPT !.clock = m.clock + d.fn.dur]
                   IN  Finish(m3, Closure(f.cls, step, HowAt(f), f.prev, got))

\* Eff.run / EffSync.run return: under asyncio.timeout an expired deadline
\* turns the CancelledError it caused into TimeoutError.
Exit(m) ==
    [m EXCEPT !.status = "done",
              !.cur = IF m.timed /\ m.expired /\ ~m.cancelled /\ m.cur = Raise(CancelledError)
                      THEN Raise(TimeoutError) ELSE m.cur]

Advance(m) ==
    IF m.stack = <<>> THEN Exit(m)
    ELSE IF Top(m).pos > Len(Top(m).chain) THEN Pop(m)
    ELSE Enter(m)

\* Run the task until it suspends or finishes.
RECURSIVE Exec(_)
Exec(m) == IF m.status # "run" THEN m ELSE Exec(Advance(m))

\* The awaited function has finished: the closure continues with its outcome.
Wake(m) ==
    LET f == [Top(m) EXCEPT !.res = m.pend]
        m1 == [SetTop(m, f) EXCEPT !.status = "run", !.pend = Pending, !.thread = FALSE]
    IN  Exec(Finish(m1, Closure(f.cls, f.chain[f.pos], HowAt(f), f.prev, m.pend)))

\* An exception is thrown into the task at the await it is suspended on.  A
\* function offloaded to a thread keeps running there.
Throw(m, e) ==
    LET m1 == [m EXCEPT !.status = "run", !.pend = Pending, !.thread = FALSE,
                        !.log = IF m.thread
                                THEN Append(m.log, [ev |-> "abandon", d |-> Len(m.stack),
                                                    p |-> Top(m).pos])
                                ELSE m.log]
    IN  Exec(Complete(m1, Raise(e)))

\* A fresh run of effect e: Eff.run(delay) / EffSync.run().
NewRun(e, timed, delay, clock) ==
    [stack |-> <<Frame(e, IF e.t = "Eff" THEN "await" ELSE "call")>>,
     cur |-> Pending, status |-> "run", pend |-> Pending, thread |-> FALSE, wake |-> 0,
     timed |-> timed, delay |-> delay, deadline |-> clock + delay,
     expired |-> FALSE, cancelled |-> FALSE, task |-> FALSE,
     start |-> clock, clock |-> clock, calls |-> [body |-> 0, fn |-> 0], log |-> <<>>]

----------------------------------------------------------------------------
(* The methods that build effects.  Each returns the new effect object, or  *)
(* reports that it raised MonadError (and then built nothing).              *)

\* calls: the invocations of the body and of functions the method itself made
NoCalls == [body |-> 0, fn |-> 0]
Built(e) == [raised |-> FALSE, eff |-> e, calls |-> NoCalls]
Refused(self) == [raised |-> TRUE, eff |-> self, calls |-> NoCalls]

\* cls(new_effect), new_effect closing over self and fn
Then(self, op, fn) == EffObj(self.t, Append(self.chain, Step(op, fn)))

\* Eff.__init__
Eff_init(effect) == Built(EffObj("Eff", <<Step("body", effect)>>))

\* Eff.of: Eff(lambda: value)
Eff_of(value) == Eff_init(Fn(FALSE, 0, "const", value))

\* Mutant: map that evaluates self.effect() when it is called.
Eff_map_eager(self, fn) ==
    [raised |-> FALSE, eff |-> Then(self, "map", fn), calls |-> [body |-> 1, fn |-> 0]]

\* Eff.map
Eff_map(self, fn) == Built(Then(self, "map", fn))

\* Eff.map_to_thread
Eff_map_to_thread(self, fn) ==
    IF panic_on_coroutine(fn) THEN Refused(self) ELSE Built(Then(self, "map_to_thread", fn))

\* Eff.bind
Eff_bind(self, fn) == Built(Then(self, "bind", fn))

\* Eff.bind_to_thread
Eff_bind_to_thread(self, fn) ==
    IF panic_on_coroutine(fn) THEN Refused(self) ELSE Built(Then(self, "bind_to_thread", fn))

\* Eff.catch
Eff_catch(self, fn) == Built(Then(self, "catch", fn))

\* Eff.ensure
Eff_ensure(self, fn) == Built(Then(self, "ensure", fn))

\* EffSync.__init__
EffSync_init(effect) ==
    IF on_coroutine(effect) THEN Refused(NoEff)
    ELSE Built(EffObj("EffSync", <<Step("body", effect)>>))

\* EffSync.of: EffSync(lambda: value)
EffSync_of(value) == EffSync_init(Fn(FALSE, 0, "const", value))

\* Mutant: map without the on_coroutine check.
EffSync_map_unchecked(self, fn) == Built(Then(self, "map", fn))

\* EffSync.map; new_effect is a plain def, which EffSync.__init__ accepts
EffSync_map(self, fn) ==
    IF on_coroutine(fn) THEN Refused(self) ELSE Built(Then(self, "map", fn))

\* EffSync.bind
EffSync_bind(self, fn) ==
    IF on_coroutine(fn) THEN Refused(self) ELSE Built(Then(self, "bind", fn))

\* EffSync.catch
EffSync_catch(self, fn) ==
    IF on_coroutine(fn) THEN Refused(self) ELSE Built(Then(self, "catch", fn))

\* EffSync.ensure
EffSync_ensure(self, fn) ==
    IF on_coroutine(fn) THEN Refused(self) ELSE Built(Then(self, "ensure", fn))

\* Mutant: run that keeps the first result and hands it out again.
Eff_run_memoized(self, timed, delay, clock) ==
    IF nruns > 0
    THEN [NewRun(self, timed, delay, clock) EXCEPT !.status = "done", !.stack = <<>>,
                                                   !.cur = Ret(Num(1))]
    ELSE Exec(NewRun(self, timed, delay, clock))

\* inspect.iscoroutinefunction(self.effect): the body given to the
\* constructor is what it is, the lambda of `of` is not one, the new_effect
\* of every Eff combinator is an async def.
EffectIsCoroutine(self) ==
    IF Len(self.chain) = 1 THEN self.chain[1].fn.async ELSE TRUE

\* Mutant: the check of map_to_thread used in to_task.
panic_on_sync_inverted(self) == EffectIsCoroutine(self)

\* _panic_on_sync(self.effect, ...)
panic_on_sync(self) == ~EffectIsCoroutine(self)

\* Eff.to_task: asyncio.create_task(self.effect()) makes a task that the
\* event loop has yet to start.
Eff_to_task(self, clock) ==
    IF panic_on_sync(self) THEN [raised |-> TRUE, task |-> Pending]
    ELSE [raised |-> FALSE,
          task |-> [NewRun(self, FALSE, 0, clock) EXCEPT !.status = "ready", !.task = TRUE]]

\* Eff.run(delay): asyncio.timeout(delay) when a delay is given
Eff_run(self, timed, delay, clock) == Exec(NewRun(self, timed, delay, clock))

\* EffSync.run()
EffSync_run(self, clock) == Exec(NewRun(self, FALSE, 0, clock))

----------------------------------------------------------------------------
(* The inputs: the user functions chains are built from, in families.       *)

inc == Fn(FALSE, 0, "inc", None)            \* lambda x: x + 1
incAsync == Fn(TRUE, 0, "inc", None)        \* async def plus(x): return x + 1
incSleep == Fn(TRUE, 1, "inc", None)        \* async, sleeps one tick first
incSlow == Fn(FALSE, 1, "inc", None)        \* sync, takes one tick
toLeft == Fn(FALSE, 0, "left", None)        \* lambda _: Left(0)
toNothing == Fn(FALSE, 0, "nothing", None)  \* lambda _: Nothing()
raiser(kind, tag) == Fn(FALSE, 0, "raise", Exc(kind, tag))
const(v) == Fn(FALSE, 0, "const", v)
catcher == Fn(TRUE, 0, "const", Num(10))    \* async def catcher(_): return 10
noop == const(None)                         \* a cleanup
noopSleep == Fn(TRUE, 1, "const", None)     \* an async cleanup that sleeps
asyncBody == Fn(TRUE, 0, "const", Num(3))   \* async def eff_async(): return 3
sleeper(n) == Fn(TRUE, n, "const", Num(1))  \* async body: sleep n, return 1
deferred == Fn(FALSE, 0, "defer", Num(5))   \* lambda: asyncio.sleep(0, 5)
blocker(n) == Fn(FALSE, n, "const", Num(1)) \* sync body: takes n ticks
\* lambda x: C.of(x) / lambda x: Eff(async body returning x)
ofEff == Fn(FALSE, 0, "of", [cls |-> "Eff", async |-> FALSE, dur |-> 0])
ofEffAsync == Fn(FALSE, 0, "of", [cls |-> "Eff", async |-> TRUE, dur |-> 0])
ofEffSync == Fn(FALSE, 0, "of", [cls |-> "EffSync", async |-> FALSE, dur |-> 0])

Families == {"sync", "chain", "catch", "ensure", "time", "task"}

Family(name) ==
    CASE name = "sync" ->
           [cls |-> "EffSync", vals |-> {Num(1), Right(Num(1))},
            bodies |-> {toLeft, toNothing, raiser("TypeError", 1), sleeper(1)},
            steps |-> {Step("map", inc), Step("map", toLeft), Step("map", ofEffSync),
                       Step("map", raiser("TypeError", 2)), Step("map", incAsync),
                       Step("bind", ofEffSync), Step("bind", inc), Step("bind", incAsync),
                       Step("catch", const(Num(10))), Step("catch", ofEffSync),
                       Step("catch", raiser("TypeError", 3)), Step("catch", incAsync),
                       Step("ensure", noop), Step("ensure", raiser("TypeError", 4)),
                       Step("ensure", noopSleep)},
            delays |-> {}, cancel |-> FALSE, overlap |-> FALSE, tasks |-> FALSE]
      [] name = "chain" ->
           [cls |-> "Eff", vals |-> {Num(1)},
            bodies |-> {toLeft, toNothing},
            steps |-> {Step("map", inc), Step("map", incAsync), Step("map", toLeft),
                       Step("map", ofEff),
                       Step("map_to_thread", inc), Step("map_to_thread", ofEff),
                       Step("map_to_thread", incAsync),
                       Step("bind", ofEff), Step("bind", inc),
                       Step("bind_to_thread", ofEff), Step("bind_to_thread", ofEffAsync),
                       Step("bind_to_thread", inc), Step("bind_to_thread", incAsync)},
            delays |-> {}, cancel |-> FALSE, overlap |-> TRUE, tasks |-> FALSE]
      [] name = "catch" ->
           [cls |-> "Eff", vals |-> {Num(1)},
            bodies |-> {raiser("TypeError", 1), raiser("MonadError", 1),
                        raiser("KeyboardInterrupt", 1), raiser("TimeoutError", 1),
                        sleeper(1)},
            steps |-> {Step("map", inc), Step("map", ofEff),
                       Step("map", raiser("TypeError", 2)),
                       Step("catch", const(Num(10))), Step("catch", catcher),
                       Step("catch", ofEff),
                       Step("catch", raiser("TypeError", 3))},
            delays |-> {1}, cancel |-> TRUE, overlap |-> FALSE, tasks |-> FALSE]
      [] name = "ensure" ->
           [cls |-> "Eff", vals |-> {Num(1)},
            bodies |-> {raiser("TypeError", 1), sleeper(1)},
            steps |-> {Step("map", inc), Step("map", incSleep),
                       Step("map_to_thread", incSlow),
                       Step("ensure", noop), Step("ensure", noopSleep),
                       Step("ensure", raiser("TypeError", 4))},
            delays |-> {1}, cancel |-> TRUE, overlap |-> FALSE, tasks |-> FALSE]
      [] name = "time" ->
           [cls |-> "Eff", vals |-> {},
            bodies |-> {sleeper(2), blocker(2)},
            steps |-> {Step("map", incSleep), Step("map", incSlow),
                       Step("map_to_thread", incSlow)},
            delays |-> {1, 3}, cancel |-> FALSE, overlap |-> FALSE, tasks |-> FALSE]
      [] name = "task" ->
           [cls |-> "Eff", vals |-> {Num(1), Right(Num(1))},
            bodies |-> {asyncBody, sleeper(1), deferred},
            steps |-> {Step("map", inc), Step("map", incSleep)},
            delays |-> {}, cancel |-> FALSE, overlap |-> FALSE, tasks |-> TRUE]

\* The functions the family offers to combinator op.
FnsFor(op) == {s.fn : s \in {x \in Family(lib).steps : x.op = op}}

----------------------------------------------------------------------------
(* The state machine.  A chain is built, then run up to MaxRuns times.      *)

Init ==
    /\ lib \in Families
    /\ eff = NoEff
    /\ err = FALSE
    /\ terr = FALSE
    /\ runs = <<>>
    /\ now = 0
    /\ nruns = 0
    /\ ncalls = NoCalls
    /\ tr = NoChain

\* A constructor or combinator call evaluating to build result b.
Build(b) ==
    /\ eff' = b.eff
    /\ err' = b.raised
    /\ ncalls' = [body |-> ncalls.body + b.calls.body, fn |-> ncalls.fn + b.calls.fn]
    /\ terr' = FALSE
    /\ UNCHANGED <<lib, runs, nruns, now, tr>>

CanExtend == eff # NoEff /\ runs = <<>> /\ Len(eff.chain) <= MaxSteps

\* Eff(body) / EffSync(body)
Construct ==
    /\ eff = NoEff
    /\ \E body \in Family(lib).bodies :
          Build(IF Family(lib).cls = "Eff" THEN Eff_init(body) ELSE EffSync_init(body))

\* Eff.of(value) / EffSync.of(value)
Of ==
    /\ eff = NoEff
    /\ \E value \in Family(lib).vals :
          Build(IF Family(lib).cls = "Eff" THEN Eff_of(value) ELSE EffSync_of(value))

Map ==
    /\ CanExtend
    /\ \E fn \in FnsFor("map") :
          Build(IF eff.t = "Eff" THEN Eff_map(eff, fn) ELSE EffSync_map(eff, fn))

MapToThread ==
    /\ CanExtend /\ eff.t = "Eff"
    /\ \E fn \in FnsFor("map_to_thread") : Build(Eff_map_to_thread(eff, fn))

Bind ==
    /\ CanExtend
    /\ \E fn \in FnsFor("bind") :
          Build(IF eff.t = "Eff" THEN Eff_bind(eff, fn) ELSE EffSync_bind(eff, fn))

BindToThread ==
    /\ CanExtend /\ eff.t = "Eff"
    /\ \E fn \in FnsFor("bind_to_thread") : Build(Eff_bind_to_thread(eff, fn))

Catch ==
    /\ CanExtend
    /\ \E fn \in FnsFor("catch") :
          Build(IF eff.t = "Eff" THEN Eff_catch(eff, fn) ELSE EffSync_catch(eff, fn))

Ensure ==
    /\ CanExtend
    /\ \E fn \in FnsFor("ensure") :
          Build(IF eff.t = "Eff" THEN Eff_ensure(eff, fn) ELSE EffSync_ensure(eff, fn))

\* The task of run i has advanced to m.
Stepped(i, m) ==
    /\ runs' = [runs EXCEPT ![i] = m]
    /\ now' = m.clock
    /\ ncalls' = [body |-> ncalls.body + (m.calls.body - runs[i].calls.body),
                  fn |-> ncalls.fn + (m.calls.fn - runs[i].calls.fn)]
    /\ UNCHANGED <<lib, eff, err, terr, tr>>

\* ... at a resumption
Ran(i, m) == Stepped(i, m) /\ nruns' = nruns

\* The runs that have not returned yet.
IsLive(m) == m.status # "done"
InFlight == SelectSeq(runs, IsLive)

\* The tasks made by to_task that the event loop has not started.
Ready == {i \in DOMAIN runs : runs[i].status = "ready"}

\* run() is called on the effect: the task executes up to its first
\* suspension, or to its end.
Run ==
    /\ eff # NoEff /\ nruns + Cardinality(Ready) < MaxRuns
    /\ Family(lib).overlap \/ InFlight = <<>>
    /\ \E timed \in {FALSE} \cup {d \in {TRUE} : eff.t = "Eff" /\ Family(lib).delays # {}} :
       \E delay \in IF timed THEN Family(lib).delays ELSE {0} :
          LET t0 == IF InFlight = <<>> THEN 0 ELSE now
              m == IF eff.t = "Eff" THEN Eff_run(eff, timed, delay, t0)
                   ELSE EffSync_run(eff, t0)
          IN  /\ runs' = Append(InFlight, m)
              /\ nruns' = nruns + 1
              /\ now' = m.clock
              /\ ncalls' = [body |-> ncalls.body + m.calls.body,
                            fn |-> ncalls.fn + m.calls.fn]
              /\ err' = FALSE /\ terr' = FALSE
              /\ UNCHANGED <<lib, eff, tr>>

\* to_task() is called on the effect.
ToTask ==
    /\ eff # NoEff /\ eff.t = "Eff" /\ Family(lib).tasks
    /\ nruns + Cardinality(Ready) < MaxRuns
    /\ Family(lib).overlap \/ InFlight = <<>>
    /\ LET t0 == IF InFlight = <<>> THEN 0 ELSE now
           b == Eff_to_task(eff, t0)
       IN  /\ terr' = b.raised
           /\ runs' = IF b.raised THEN runs ELSE Append(InFlight, b.task)
           /\ now' = IF b.raised THEN now ELSE t0
           /\ UNCHANGED <<lib, eff, err, nruns, ncalls, tr>>

\* The event loop gives a new task its first turn: the chain executes up to
\* its first suspension, or to its end.
Start ==
    \E i \in Ready :
       /\ Stepped(i, Exec([runs[i] EXCEPT !.status = "run", !.clock = now]))
       /\ nruns' = nruns + 1

Sleeping(i) == runs[i].status = "sleep"

\* Mutant: a suspended task is resumed before what it awaits is over.
Resume_early ==
    \E i \in DOMAIN runs :
       /\ Sleeping(i)
       /\ Ran(i, Wake([runs[i] EXCEPT !.clock = now]))

\* The awaited sleep or thread is over: the event loop resumes the task.
Resume ==
    \E i \in DOMAIN runs :
       /\ Sleeping(i) /\ runs[i].wake <= now
       /\ Ran(i, Wake([runs[i] EXCEPT !.clock = now]))

\* The deadline of asyncio.timeout passes: the task is cancelled.
Timeout ==
    \E i \in DOMAIN runs :
       /\ Sleeping(i) /\ runs[i].timed /\ ~runs[i].expired /\ runs[i].deadline <= now
       /\ Ran(i, Throw([runs[i] EXCEPT !.clock = now, !.expired = TRUE], CancelledError))

\* The task awaiting run() is cancelled from outside.
Cancel ==
    \E i \in DOMAIN runs :
       /\ Family(lib).cancel
       /\ Sleeping(i) /\ ~runs[i].cancelled /\ ~runs[i].expired
       /\ Ran(i, Throw([runs[i] EXCEPT !.clock = now, !.cancelled = TRUE], CancelledError))

\* No timer is due: the event loop waits.
Tick ==
    /\ \E i \in DOMAIN runs : Sleeping(i)
    /\ Ready = {}
    /\ \A i \in DOMAIN runs :
          Sleeping(i) =>
             /\ runs[i].wake > now
             /\ (runs[i].timed /\ ~runs[i].expired) => runs[i].deadline > now
    /\ now' = now + 1
    /\ UNCHANGED <<lib, eff, err, terr, runs, nruns, ncalls, tr>>

Next ==
    \/ Construct \/ Of
    \/ Map \/ MapToThread \/ Bind \/ BindToThread \/ Catch \/ Ensure
    \/ Run \/ ToTask \/ Start \/ Resume \/ Timeout \/ Cancel \/ Tick

Spec == Init /\ [][Next]_vars

----------------------------------------------------------------------------
(* triple.py: the three-branch container Right / Left / Nothing and the    *)
(* static helpers of TUtils.  The methods are synchronous and pure, so a   *)
(* method call is one step; what it returns or raises and how many times   *)
(* it invoked the user's function are computed together.                   *)

\* A user function as a value: whether inspect sees a coroutine function,
\* whether @impure marked it, how many positional parameters it has, and
\* what it does.
TFn(async, impure, arity, beh, val) ==
    [t |-> "fn", async |-> async, impure |-> impure, arity |-> arity, beh |-> beh,
     val |-> val]

\* curry.py: a Curry object, the original function, the positional arguments
\* bound so far and the number of parameters left unbound.
\* Parameters are named by their place in the signature of the original
\* function; sig holds the names of the unbound ones, named the arguments
\* kept by name.
CurryObj(fn, pos, need) ==
    [t |-> "Curry", fn |-> fn, pos |-> pos, need |-> need,
     sig |-> [i \in 1..need |-> fn.arity - need + i], named |-> <<>>]

\* _Base._update_state
update_state(self, sig, pos, named) ==
    [self EXCEPT !.sig = sig, !.pos = pos, !.named = named, !.need = Len(sig)]

\* curry(fn)
curry(fn) == CurryObj(fn, <<>>, fn.arity)

\* async_curry(fn)
async_curry(fn) == [CurryObj(fn, <<>>, fn.arity) EXCEPT !.t = "AsyncCurry"]

CurryBadArguments == Exc("CurryBadArguments", 0)

\* The outcome of a call and the number of times the user's function ran.
Did(out, calls) == [out |-> out, calls |-> calls]

AllInts(args) == \A i \in DOMAIN args : args[i].t = "int"

\* bool(v): None, 0 and False are false; a Triple defines neither __bool__
\* nor __len__ and is true.
Bool(b) == [t |-> "bool", v |-> b]
Truthy(v) == v \notin {None, Num(0), Bool(FALSE)}

List(v) == [t |-> "list", v |-> v]

RECURSIVE Sum(_)
Sum(args) == IF args = <<>> THEN 0 ELSE args[1].v + Sum(Tail(args))

\* fn(*args) for a plain function.
\*   inc : lambda x: x + 1            unit : lambda x: Right(x)
\*   incr: lambda x: Right(x + 1)     left : lambda x: Left(x)
\*   nothing: lambda *_: Nothing()    const: lambda *_: val
\*   sum : lambda a, b, ...: a + b + ...          raise: raises val
\*   bool: lambda v: bool(v)          isnone: lambda a: a is None
\*   list: def f(a, b, c): return [a, b, c]; val, unless None, is the
\*         default of the last parameter
CallFn(fn, args) ==
    IF fn.beh = "raise" THEN Raise(fn.val)
    ELSE IF fn.beh = "bool" THEN Ret(Bool(Truthy(args[1])))
    ELSE IF fn.beh = "isnone" THEN Ret(Bool(args[1] = None))
    ELSE IF fn.beh = "const" THEN Ret(fn.val)
    ELSE IF fn.beh = "nothing" THEN Ret(Nothing)
    ELSE IF Len(args) # fn.arity THEN Raise(Exc("TypeError", 0))
    ELSE IF fn.beh = "unit" THEN Ret(Right(args[1]))
    ELSE IF fn.beh = "left" THEN Ret(Left(args[1]))
    ELSE IF ~AllInts(args) THEN Raise(Exc("TypeError", 0))
    ELSE IF fn.beh = "list" THEN Ret(List(args))
    ELSE IF fn.beh = "inc" THEN Ret(Num(args[1].v + 1))
    ELSE IF fn.beh = "incr" THEN Ret(Right(Num(args[1].v + 1)))
    ELSE Ret(Num(Sum(args)))

\* Does the parameter have a default value?
HasDefault(fn, name) == fn.beh = "list" /\ fn.val # None /\ name = fn.arity

\* The names in sig[from..], as a set.
NamesFrom(sig, from) == {sig[i] : i \in from..Len(sig)}

\* Signature.bind_partial(*args, **kwargs): the arguments by parameter name,
\* or TypeError (too many positional arguments, a keyword that names no
\* parameter of the signature or one a positional argument took).
bind_partial(sig, args, kwargs) ==
    IF Len(args) > Len(sig) THEN Raise(Exc("TypeError", 0))
    ELSE IF ~(DOMAIN kwargs \subseteq NamesFrom(sig, Len(args) + 1))
    THEN Raise(Exc("TypeError", 0))
    ELSE Ret([n \in {sig[i] : i \in 1..Len(args)} \cup DOMAIN kwargs |->
                IF n \in DOMAIN kwargs THEN kwargs[n]
                ELSE args[CHOOSE i \in 1..Len(args) : sig[i] = n]])

\* curry.py _apply: a call without arguments applies the defaults
apply(fn, sig, args, kwargs) ==
    LET b == bind_partial(sig, args, kwargs) IN
    IF b.k = "exc" \/ args # <<>> \/ DOMAIN kwargs # {} THEN b
    ELSE Ret([n \in {m \in NamesFrom(sig, 1) : HasDefault(fn, m)} |-> fn.val])

\* BoundArguments.args: the values of the parameters up to the first one
\* that is not bound; BoundArguments.kwargs: the other values, by name.
BoundPrefix(sig, arguments) ==
    CHOOSE k \in 0..Len(sig) :
       /\ \A i \in 1..k : sig[i] \in DOMAIN arguments
       /\ k < Len(sig) => sig[k + 1] \notin DOMAIN arguments
BoundArgs(sig, arguments) == [i \in 1..BoundPrefix(sig, arguments) |-> arguments[sig[i]]]
BoundKwargs(sig, arguments) ==
    [n \in DOMAIN arguments \ {sig[i] : i \in 1..BoundPrefix(sig, arguments)} |-> arguments[n]]

\* {**a, **b}
Merge(a, b) == [n \in DOMAIN a \cup DOMAIN b |-> IF n \in DOMAIN b THEN b[n] ELSE a[n]]

\* The parameters of sig that are not in the set bound.
RECURSIVE Without(_, _)
Without(sig, bound) ==
    IF sig = <<>> THEN <<>>
    ELSE IF sig[1] \in bound THEN Without(Tail(sig), bound)
    ELSE <<sig[1]>> \o Without(Tail(sig), bound)

\* fn(*pos, **named): Python binds the positional values to the first
\* parameters of the function and the others by name, and raises TypeError
\* without running the function when a parameter gets two values or none.
CallBound(fn, pos, named) ==
    IF \/ Len(pos) > fn.arity
       \/ \E n \in DOMAIN named : n \notin (Len(pos) + 1)..fn.arity
       \/ \E i \in (Len(pos) + 1)..fn.arity : i \notin DOMAIN named /\ ~HasDefault(fn, i)
    THEN Did(Raise(Exc("TypeError", 0)), 0)
    ELSE Did(CallFn(fn, [i \in 1..fn.arity |->
                           IF i <= Len(pos) THEN pos[i]
                           ELSE IF i \in DOMAIN named THEN named[i] ELSE fn.val]), 1)

\* What a call of a Curry object gives: the outcome, the invocations of the
\* original function, the receiver after the call, and whether the object
\* returned is a new one.
Gave(out, calls, self, fresh) == [out |-> out, calls |-> calls, self |-> self, fresh |-> fresh]

\* Mutant: the receiver takes the new arguments and is returned.
new_curry_in_place(self, sig, pos, named) ==
    Gave(Ret(update_state(self, sig, pos, named)), 0, update_state(self, sig, pos, named), FALSE)

\* new_curry = Curry(self._func); new_curry._update_state(...); return new_curry
new_curry(self, sig, pos, named) ==
    Gave(Ret(update_state([self EXCEPT !.pos = <<>>, !.named = <<>>], sig, pos, named)),
         0, self, TRUE)

\* Curry.__call__(*args, **kwargs): the original function runs once no
\* parameter is left unbound, otherwise a new Curry object holding the
\* arguments so far is returned; `except TypeError` also catches a
\* TypeError of the function itself.
Curry_call(self, args, kwargs) ==
    LET b == apply(self.fn, self.sig, args, kwargs) IN
    IF b.k = "exc" THEN Gave(Raise(CurryBadArguments), 0, self, FALSE)
    ELSE LET new_params == Without(self.sig, DOMAIN b.v)
             pos == self.pos \o BoundArgs(self.sig, b.v)
             named == Merge(self.named, BoundKwargs(self.sig, b.v))
         IN  IF new_params # <<>> THEN new_curry(self, new_params, pos, named)
             ELSE LET r == CallBound(self.fn, pos, named) IN
                  Gave(IF r.out.k = "exc" /\ r.out.v.kind = "TypeError"
                       THEN Raise(CurryBadArguments) ELSE r.out,
                       r.calls, self, FALSE)

\* await AsyncCurry.__call__(*args, **kwargs): as Curry.__call__, the
\* original coroutine function being awaited.
AsyncCurry_call(self, args, kwargs) ==
    LET b == apply(self.fn, self.sig, args, kwargs) IN
    IF b.k = "exc" THEN Gave(Raise(CurryBadArguments), 0, self, FALSE)
    ELSE LET new_params == Without(self.sig, DOMAIN b.v)
             pos == self.pos \o BoundArgs(self.sig, b.v)
             named == Merge(self.named, BoundKwargs(self.sig, b.v))
         IN  IF new_params # <<>> THEN new_curry(self, new_params, pos, named)
             ELSE LET r == CallBound(self.fn, pos, named) IN
                  Gave(IF r.out.k = "exc" /\ r.out.v.kind = "TypeError"
                       THEN Raise(CurryBadArguments) ELSE r.out,
                       r.calls, self, FALSE)

\* f(*args) for any value f: a function, a Curry object, or something that
\* is not callable.  Calling a coroutine function makes a coroutine object
\* and runs nothing.
Call(f, args) ==
    IF f.t = "Curry"
    THEN LET c == Curry_call(f, args, <<>>) IN Did(c.out, c.calls)
    ELSE IF f.t # "fn" THEN Did(Raise(Exc("TypeError", 0)), 0)
    ELSE IF f.async THEN Did(Ret([t |-> "coroutine"]), 0)
    ELSE Did(CallFn(f, args), 1)

\* triple.py: is_impure(fn) = getattr(fn, 'mafunca_impure', False)
is_impure(fn) == fn.t = "fn" /\ fn.impure

\* Mutant: the check without its impure part.
panic_on_bad_function_sync_only(fn) == fn.t = "fn" /\ fn.async

\* triple.py: _panic_on_bad_function(fn, ...) raises
panic_on_bad_function(fn) == (fn.t = "fn" /\ fn.async) \/ is_impure(fn)

\* triple.py: _panic_on_monadic_result(value, ...) raises
triple_panic_on_monadic_result(value) == IsTriple(value)

\* `result if isinstance(result, Triple) else Right(result)`
WrapUnlessTriple(c) ==
    IF c.out.k = "exc" \/ IsTriple(c.out.v) THEN c ELSE Did(Ret(Right(c.out.v)), c.calls)

\* Right.map
Right_map(self, fn) ==
    IF panic_on_bad_function(fn) THEN Did(Raise(MonadError), 0)
    ELSE LET c == Call(fn, <<self.v>>) IN
         IF c.out.k = "exc" THEN c
         ELSE IF triple_panic_on_monadic_result(c.out.v) THEN Did(Raise(MonadError), c.calls)
         ELSE Did(Ret(Right(c.out.v)), c.calls)

\* Right.bind: the function's result is returned as it is
Right_bind(self, fn) ==
    IF panic_on_bad_function(fn) THEN Did(Raise(MonadError), 0)
    ELSE Call(fn, <<self.v>>)

\* Right.recover_from_left / Right.recover_from_nothing
Right_recover_from_left(self, fn) == Did(Ret(self), 0)
Right_recover_from_nothing(self, fn) == Did(Ret(self), 0)

\* Mutant: Right.ap looking at the argument before the payload.
Right_ap_argument_first(self, wrapped_val) ==
    IF wrapped_val.t # "Right" THEN Did(Ret(wrapped_val), 0)
    ELSE IF panic_on_bad_function(self.v) THEN Did(Raise(MonadError), 0)
    ELSE WrapUnlessTriple(Call(self.v, <<wrapped_val.v>>))

\* Right.ap: the payload is checked first, then the argument
Right_ap(self, wrapped_val) ==
    IF panic_on_bad_function(self.v) THEN Did(Raise(MonadError), 0)
    ELSE IF wrapped_val.t # "Right" THEN Did(Ret(wrapped_val), 0)
    ELSE WrapUnlessTriple(Call(self.v, <<wrapped_val.v>>))

\* Mutant: Left.map checking its function as Right.map does.
Left_map_checked(self, fn) ==
    IF panic_on_bad_function(fn) THEN Did(Raise(MonadError), 0) ELSE Did(Ret(self), 0)

\* Left.map / Left.bind / Left.ap / Left.recover_from_nothing
Left_map(self, fn) == Did(Ret(self), 0)
Left_bind(self, fn) == Did(Ret(self), 0)
Left_ap(self, wrapped_val) == Did(Ret(self), 0)
Left_recover_from_nothing(self, fn) == Did(Ret(self), 0)

\* Mutant: recover_from_left that always wraps the result in Right.
Left_recover_from_left_wrapping(self, fn) ==
    IF panic_on_bad_function(fn) THEN Did(Raise(MonadError), 0)
    ELSE LET c == Call(fn, <<self.v>>) IN
         IF c.out.k = "exc" THEN c ELSE Did(Ret(Right(c.out.v)), c.calls)

\* Left.recover_from_left
Left_recover_from_left(self, fn) ==
    IF panic_on_bad_function(fn) THEN Did(Raise(MonadError), 0)
    ELSE WrapUnlessTriple(Call(fn, <<self.v>>))

\* Nothing.map / Nothing.bind / Nothing.ap / Nothing.recover_from_left
Nothing_map(self, fn) == Did(Ret(self), 0)
Nothing_bind(self, fn) == Did(Ret(self), 0)
Nothing_ap(self, wrapped_val) == Did(Ret(self), 0)
Nothing_recover_from_left(self, fn) == Did(Ret(self), 0)

\* Nothing.recover_from_nothing
Nothing_recover_from_nothing(self, fn) ==
    IF panic_on_bad_function(fn) THEN Did(Raise(MonadError), 0)
    ELSE WrapUnlessTriple(Call(fn, <<>>))

\* Mutant: get_or_else of a Left handing out the payload.
Left_get_or_else_payload(self, alter) == Did(Ret(self.v), 0)

\* Right.get_or_else / Left.get_or_else / Nothing.get_or_else
Right_get_or_else(self, alter) == Did(Ret(self.v), 0)
Left_get_or_else(self, alter) == Did(Ret(alter), 0)
Nothing_get_or_else(self, alter) == Did(Ret(alter), 0)

\* self.<method>(x), dispatched on the class of self
Method(self, method, x) ==
    CASE method = "get_or_else" ->
           IF self.t = "Right" THEN Right_get_or_else(self, x)
           ELSE IF self.t = "Left" THEN Left_get_or_else(self, x)
           ELSE Nothing_get_or_else(self, x)
      [] method = "map" ->
           IF self.t = "Right" THEN Right_map(self, x)
           ELSE IF self.t = "Left" THEN Left_map(self, x) ELSE Nothing_map(self, x)
      [] method = "bind" ->
           IF self.t = "Right" THEN Right_bind(self, x)
           ELSE IF self.t = "Left" THEN Left_bind(self, x) ELSE Nothing_bind(self, x)
      [] method = "recover_from_left" ->
           IF self.t = "Right" THEN Right_recover_from_left(self, x)
           ELSE IF self.t = "Left" THEN Left_recover_from_left(self, x)
           ELSE Nothing_recover_from_left(self, x)
      [] method = "recover_from_nothing" ->
           IF self.t = "Right" THEN Right_recover_from_nothing(self, x)
           ELSE IF self.t = "Left" THEN Left_recover_from_nothing(self, x)
           ELSE Nothing_recover_from_nothing(self, x)
      [] method = "ap" ->
           IF self.t = "Right" THEN Right_ap(self, x)
           ELSE IF self.t = "Left" THEN Left_ap(self, x) ELSE Nothing_ap(self, x)

\* TUtils.unit
unit(value) == Did(Ret(Right(value)), 0)

\* TUtils.from_nullable: Right(value) if predicate(value) else Nothing()
from_nullable(value, predicate) ==
    LET c == Call(predicate, <<value>>) IN
    IF c.out.k = "exc" THEN c
    ELSE Did(Ret(IF Truthy(c.out.v) THEN Right(value) ELSE Nothing), c.calls)

\* TUtils.from_try(fn): the check made when the function is wrapped
from_try(fn) ==
    IF panic_on_bad_function(fn) THEN Raise(MonadError)
    ELSE Ret([t |-> "from_try_inner", fn |-> fn])

\* Mutant: the wrapper turning every Exception into a Left.
from_try_inner_catch_all(fn, args) ==
    LET c == Call(fn, args) IN
    IF c.out.k = "val" THEN Did(Ret(Right(c.out.v)), c.calls)
    ELSE IF ~IsException(c.out.v) THEN c
    ELSE Did(Ret(Left(c.out.v)), c.calls)

\* TUtils.from_try.from_try_inner(*args)
from_try_inner(fn, args) ==
    LET c == Call(fn, args) IN
    IF c.out.k = "val" THEN Did(Ret(Right(c.out.v)), c.calls)
    ELSE IF ~IsException(c.out.v) THEN c
    ELSE IF c.out.v.kind \in {"MonadError", "KeyboardInterrupt"} THEN c
    ELSE Did(Ret(Left(c.out.v)), c.calls)

\* TUtils.lift: result = Right(curried); for arg: result = result.ap(arg)
RECURSIVE lift_loop(_, _)
lift_loop(result, wrapped_args) ==
    IF wrapped_args = <<>> \/ result.out.k = "exc" THEN result
    ELSE LET c == Method(result.out.v, "ap", wrapped_args[1]) IN
         lift_loop(Did(c.out, result.calls + c.calls), Tail(wrapped_args))

\* Mutant: lift applying its arguments from the last to the first.
lift_right_to_left(curried, wrapped_args) ==
    lift_loop(Did(Ret(Right(curried)), 0),
              [i \in DOMAIN wrapped_args |-> wrapped_args[Len(wrapped_args) + 1 - i]])

lift(curried, wrapped_args) == lift_loop(Did(Ret(Right(curried)), 0), wrapped_args)

\* The first TUtils.is_bad element of a sequence of arguments, if any.
RECURSIVE FirstBad(_)
FirstBad(args) ==
    IF args = <<>> THEN None
    ELSE IF is_bad(args[1]) THEN args[1] ELSE FirstBad(Tail(args))

\* getattr(arg, 'value') if isinstance(arg, Triple) else arg
Unwrapped(args) == [i \in DOMAIN args |-> IF IsTriple(args[i]) THEN args[i].v ELSE args[i]]

\* Mutant: closer scanning the named arguments before the positional ones.
closer_wrapper_named_first(func, args, kwargs) ==
    IF FirstBad(kwargs) # None THEN Did(Ret(FirstBad(kwargs)), 0)
    ELSE IF FirstBad(args) # None THEN Did(Ret(FirstBad(args)), 0)
    ELSE Call(func, Unwrapped(args) \o Unwrapped(kwargs))

\* TUtils.closer(func)(*args, **kwargs); the named arguments in call order
closer_wrapper(func, args, kwargs) ==
    IF FirstBad(args) # None THEN Did(Ret(FirstBad(args)), 0)
    ELSE IF FirstBad(kwargs) # None THEN Did(Ret(FirstBad(kwargs)), 0)
    ELSE Call(func, Unwrapped(args) \o Unwrapped(kwargs))

----------------------------------------------------------------------------
(* The Triple state machine: a value is made (a constructor, lift, or a    *)
(* function wrapped by closer), then methods are called on what the        *)
(* previous call returned, as in the chains of test_triple_and_curry.py.   *)

tInc == TFn(FALSE, FALSE, 1, "inc", None)          \* lambda x: x + 1
tUnit == TFn(FALSE, FALSE, 1, "unit", None)        \* fn_monadic: Right(x)
tIncr == TFn(FALSE, FALSE, 1, "incr", None)        \* lambda x: Right(x + 1)
tLeft == TFn(FALSE, FALSE, 1, "left", None)        \* lambda x: Left(x)
tNothing == TFn(FALSE, FALSE, 1, "nothing", None)  \* lambda x: Nothing()
tAsync == TFn(TRUE, FALSE, 1, "inc", None)         \* fn_async
tImpure == TFn(FALSE, TRUE, 1, "inc", None)        \* fn_impure
tConst(v) == TFn(FALSE, FALSE, 0, "const", v)      \* lambda *_: v
tSum(n) == TFn(FALSE, FALSE, n, "sum", None)       \* lambda a, b, ...: a + b + ...
tRaise(kind) == TFn(FALSE, FALSE, 1, "raise", Exc(kind, 0))  \* raises kind()
tBool == TFn(FALSE, FALSE, 1, "bool", None)        \* lambda v: bool(v)
tIsNone == TFn(FALSE, FALSE, 1, "isnone", None)    \* lambda a: a is None

\* The values chains start from.
Starts ==
    {Right(Num(1)), Left(Num(7)), Nothing, Right(tInc), Right(tUnit), Right(tAsync)}

\* The arguments given to each method.
ArgsOf(method) ==
    CASE method = "map" -> {tInc, tUnit, tAsync, tImpure}
      [] method = "bind" -> {tIncr, tLeft, tNothing, tInc, tAsync}
      [] method = "recover_from_left" -> {tConst(Num(100)), tIncr, tImpure}
      [] method = "recover_from_nothing" -> {tConst(Num(1000)), tConst(Left(Num(9))), tAsync}
      [] method = "ap" -> {Right(Num(1)), Left(Num(8)), Nothing}
      [] method = "get_or_else" -> {Num(0), None, Left(Num(8))}

\* The values given to unit and from_nullable, the predicates of
\* from_nullable, and the functions wrapped by from_try with the argument
\* they are called with.
Values == {Num(1), Num(0), None, Right(Num(1)), Nothing}
Predicates == {tBool, tIsNone, tConst(Bool(FALSE))}
Tried ==
    {tInc, tAsync, tImpure, tConst(Right(Num(1)))} \cup
    {tRaise(k) : k \in {"ValueError", "MonadError", "KeyboardInterrupt", "CancelledError"}}
TriedWith == {Num(10), None}

\* The wrapped arguments of lift, and the arguments of a closer-wrapped
\* function (plain values among them).
Wrapped == {Right(Num(1)), Left(Num(8)), Nothing}
Plain == {Num(1), Right(Num(2)), Left(Num(8)), Nothing}
Curried == {curry(tSum(1)), curry(tSum(2)), tImpure}

\* One more call has been made.
Called(op, recv, x, c) ==
    tr' = [acc |-> IF c.out.k = "val" THEN c.out.v ELSE tr.acc,
           raised |-> c.out.k = "exc",
           hist |-> Append(tr.hist, [op |-> op, recv |-> recv, x |-> x, out |-> c.out,
                                     calls |-> c.calls]),
           calls |-> tr.calls + c.calls]

InitT ==
    /\ lib = "sync" /\ eff = NoEff /\ err = FALSE /\ terr = FALSE
    /\ runs = <<>> /\ now = 0 /\ nruns = 0 /\ ncalls = NoCalls
    /\ tr \in {[NoChain EXCEPT !.acc = v] : v \in Starts \cup {None}}

CanCall == IsTriple(tr.acc) /\ ~tr.raised /\ Len(tr.hist) < MaxOps

\* tr.acc.<method>(x)
Invoke(method) ==
    /\ CanCall
    /\ \E x \in ArgsOf(method) : Called(method, tr.acc, x, Method(tr.acc, method, x))
    /\ UNCHANGED effvars

TMap == Invoke("map")
TBind == Invoke("bind")
TRecoverFromLeft == Invoke("recover_from_left")
TRecoverFromNothing == Invoke("recover_from_nothing")
TAp == Invoke("ap")
TGetOrElse == Invoke("get_or_else")

\* TUtils.unit(value)
TUnit ==
    /\ tr = NoChain
    /\ \E value \in Values : Called("unit", None, [value |-> value], unit(value))
    /\ UNCHANGED effvars

\* TUtils.from_nullable(value, predicate)
TFromNullable ==
    /\ tr = NoChain
    /\ \E value \in Values : \E predicate \in Predicates :
          Called("from_nullable", None, [value |-> value, predicate |-> predicate],
                 from_nullable(value, predicate))
    /\ UNCHANGED effvars

\* TUtils.from_try(fn)(arg): when from_try refuses fn there is nothing to call
TFromTry ==
    /\ tr = NoChain
    /\ \E fn \in Tried : \E arg \in TriedWith :
          LET w == from_try(fn) IN
          Called("from_try", None, [f |-> fn, args |-> <<arg>>, made |-> w.k = "val"],
                 IF w.k = "exc" THEN Did(w, 0) ELSE from_try_inner(w.v.fn, <<arg>>))
    /\ UNCHANGED effvars

\* TUtils.lift(curried, a1, ..., an), n from 1 to 3
TLift ==
    /\ tr = NoChain
    /\ \E curried \in Curried : \E n \in 1..3 : \E args \in [1..n -> Wrapped] :
          Called("lift", None, [f |-> curried, args |-> args], lift(curried, args))
    /\ UNCHANGED effvars

\* TUtils.closer(func)(*args, **kwargs) for a function of two parameters
TCloser ==
    /\ tr = NoChain
    /\ \E n \in 0..2 : \E args \in [1..n -> Plain] : \E kwargs \in [1..(2 - n) -> Plain] :
          Called("closer", None, [f |-> tSum(2), args |-> args, kwargs |-> kwargs],
                 closer_wrapper(tSum(2), args, kwargs))
    /\ UNCHANGED effvars

NextT ==
    \/ TMap \/ TBind \/ TRecoverFromLeft \/ TRecoverFromNothing \/ TAp \/ TGetOrElse
    \/ TUnit \/ TFromNullable \/ TFromTry
    \/ TLift \/ TCloser

SpecT == InitT /\ [][NextT]_vars

-----------------------------------------------------------------------------
\* Curried functions on their own. tr holds the Curry and AsyncCurry objects
\* made so far (objs), each as it was when made (born), the arguments by
\* parameter given on the way to each (meant), and the calls (hist).

tList == TFn(FALSE, FALSE, 3, "list", None)        \* def f(a, b, c): return [a, b, c]
tListD == TFn(FALSE, FALSE, 3, "list", Num(0))     \* def g(a, b, c=0): return [a, b, c]
tListA == TFn(TRUE, FALSE, 3, "list", None)        \* async def h(a, b, c): return [a, b, c]

\* The arguments of the k-th call: none, x, (x, y), b=x, c=x, z=x for a
\* name z that is no parameter, and (x, c=y).
Only(name, value) == [n \in {name} |-> value]
Shapes(k) ==
    LET x == Num(10 * k + 1)
        y == Num(10 * k + 2)
    IN  { [args |-> a, kwargs |-> <<>>] : a \in {<<>>, <<x>>, <<x, y>>} }
        \cup { [args |-> <<>>, kwargs |-> Only(n, x)] : n \in {2, 3, 4} }
        \cup { [args |-> <<x>>, kwargs |-> Only(3, y)] }

InitC ==
    /\ lib = "sync" /\ eff = NoEff /\ err = FALSE /\ terr = FALSE
    /\ runs = <<>> /\ now = 0 /\ nruns = 0 /\ ncalls = NoCalls
    /\ \E c \in {curry(tList), curry(tListD), async_curry(tListA)} :
          tr = [objs |-> <<c>>, born |-> <<c>>, meant |-> << <<>> >>, hist |-> <<>>]

IsCurried(v) == v.k = "val" /\ v.v.t \in {"Curry", "AsyncCurry"}

\* The call objs[o](*args, **kwargs) gave g.
Curried_called(o, args, kwargs, g) ==
    LET b == apply(tr.objs[o].fn, tr.objs[o].sig, args, kwargs)
        m == IF b.k = "exc" THEN tr.meant[o] ELSE Merge(tr.meant[o], b.v)
        made == IsCurried(g.out) /\ g.fresh
    IN  tr' = [objs |-> IF made THEN Append([tr.objs EXCEPT ![o] = g.self], g.out.v)
                        ELSE [tr.objs EXCEPT ![o] = g.self],
               born |-> IF made THEN Append(tr.born, g.out.v) ELSE tr.born,
               meant |-> IF made THEN Append(tr.meant, m)
                         ELSE IF IsCurried(g.out) THEN [tr.meant EXCEPT ![o] = m]
                         ELSE tr.meant,
               hist |-> Append(tr.hist,
                               [recv |-> o, before |-> tr.objs[o], after |-> g.self,
                                args |-> args, kwargs |-> kwargs, meant |-> m,
                                out |-> g.out, calls |-> g.calls, fresh |-> g.fresh])]

\* c(*args, **kwargs) for a Curry object c
CurryCall ==
    /\ Len(tr.hist) < MaxCalls
    /\ \E o \in DOMAIN tr.objs : \E sh \in Shapes(Len(tr.hist) + 1) :
          /\ tr.objs[o].t = "Curry"
          /\ Curried_called(o, sh.args, sh.kwargs, Curry_call(tr.objs[o], sh.args, sh.kwargs))
    /\ UNCHANGED effvars

\* await c(*args, **kwargs) for an AsyncCurry object c
AsyncCurryCall ==
    /\ Len(tr.hist) < MaxCalls
    /\ \E o \in DOMAIN tr.objs : \E sh \in Shapes(Len(tr.hist) + 1) :
          /\ tr.objs[o].t = "AsyncCurry"
          /\ Curried_called(o, sh.args, sh.kwargs, AsyncCurry_call(tr.objs[o], sh.args, sh.kwargs))
    /\ UNCHANGED effvars

NextC == CurryCall \/ AsyncCurryCall

SpecC == InitC /\ [][NextC]_vars

----------------------------------------------------------------------------
(* What the claims speak about: the runs, and the events they logged.       *)

AllRuns == {runs[i] : i \in DOMAIN runs}
Done == {m \in AllRuns : m.status = "done"}
StepAt(m, j) == j \in DOMAIN m.log /\ m.log[j].ev = "step"
CallAt(m, j) == j \in DOMAIN m.log /\ m.log[j].ev = "call"
StepEvents(m) == {m.log[j] : j \in {k \in DOMAIN m.log : m.log[k].ev = "step"}}
CallEvents(m) == {m.log[j] : j \in {k \in DOMAIN m.log : m.log[k].ev = "call"}}

\* What run raises or returns when its outermost closure ended with `out`.
Reported(m, out) ==
    IF m.timed /\ m.expired /\ ~m.cancelled /\ out = Raise(CancelledError)
    THEN Raise(TimeoutError) ELSE out

Transformers == {"map", "bind", "map_to_thread", "bind_to_thread"}
OnlyTransformers(chain) == \A p \in 2..Len(chain) : chain[p].op \in Transformers
IsBadOutcome(o) == o.k = "val" /\ is_bad(o.v)

\* C1: a map, bind, map_to_thread or bind_to_thread closure whose preceding
\* body yielded Left or Nothing returns that value without calling its
\* function; and in a chain of such closures only, once a closure of the
\* effect has produced a Left/Nothing no function is invoked any more and
\* run returns that value.
C1_ShortCircuit ==
    \A m \in AllRuns :
       /\ \A e \in StepEvents(m) :
             (e.op \in Transformers /\ IsBadOutcome(e.prev)) => (~e.called /\ e.out = e.prev)
       /\ OnlyTransformers(eff.chain) =>
             \A j \in DOMAIN m.log :
                (StepAt(m, j) /\ m.log[j].d = 1 /\ IsBadOutcome(m.log[j].out)) =>
                   /\ \A k \in DOMAIN m.log : k > j => ~CallAt(m, k)
                   /\ m.status = "done" => m.cur = m.log[j].out

\* A finished run in which a Left from the body passed through two closures,
\* one of them a thread variant.
C1_Witness ==
    \E m \in Done :
       /\ Len(eff.chain) >= 3 /\ OnlyTransformers(eff.chain)
       /\ m.cur = Ret(Left(0))
       /\ \E e \in StepEvents(m) : e.op = "map" /\ IsBadOutcome(e.prev)
       /\ \E e \in StepEvents(m) : e.op = "bind_to_thread" /\ IsBadOutcome(e.prev)

\* C2: until run is called, constructing the effect and applying combinators
\* to it has invoked neither the body nor any supplied function.
C2_Lazy == nruns = 0 => ncalls = NoCalls

\* An effect with catch and ensure in its chain that has not been run.
C2_Witness ==
    /\ nruns = 0 /\ eff # NoEff /\ Len(eff.chain) >= 3
    /\ \E p \in DOMAIN eff.chain : eff.chain[p].op \in {"catch", "ensure"}

Unstoppable == {"MonadError", "KeyboardInterrupt", "CancelledError"}

\* The chain of the example Eff.of(1).map(lambda x: Eff.of(x)).catch(h)
IsViolationExample(chain) ==
    /\ Len(chain) = 3
    /\ chain[1] = Step("body", const(Num(1)))
    /\ chain[2] = Step("map", ofEff)
    /\ chain[3].op = "catch"

\* C3: when the body wrapped by catch raises MonadError, KeyboardInterrupt or
\* CancelledError, catch does not call its handler and raises that same
\* error; when the catch is the last closure, that error is what run raises
\* (run(delay) reporting the CancelledError of its own expired deadline as
\* TimeoutError); Eff.of(1).map(lambda x: Eff.of(x)).catch(h).run() raises
\* MonadError whatever h is.
C3_CatchLetsThrough ==
    \A m \in AllRuns :
       /\ \A e \in StepEvents(m) :
             (e.op = "catch" /\ e.prev.k = "exc" /\ e.prev.v.kind \in Unstoppable) =>
                /\ ~e.called /\ e.out = e.prev
                /\ (m.status = "done" /\ e.d = 1 /\ e.p = Len(eff.chain)) =>
                      m.cur = Reported(m, e.out)
       /\ (m.status = "done" /\ eff.t = "Eff" /\ IsViolationExample(eff.chain)) =>
             m.cur = Raise(MonadError)

\* The example has been run and raised MonadError past the catch.
C3_Witness ==
    \E m \in Done :
       /\ IsViolationExample(eff.chain) /\ eff.t = "Eff"
       /\ m.cur = Raise(MonadError)
       /\ \E e \in StepEvents(m) : e.op = "catch" /\ e.prev = Raise(MonadError) /\ ~e.called

\* The positions of the chain that were made by ensure.
EnsureAt == {p \in DOMAIN eff.chain : eff.chain[p].op = "ensure"}
CallsOf(m, p) == {j \in DOMAIN m.log : CallAt(m, j) /\ m.log[j].d = 1 /\ m.log[j].p = p}
StepsOf(m, p) == {j \in DOMAIN m.log : StepAt(m, j) /\ m.log[j].d = 1 /\ m.log[j].p = p}

\* Counterexample of C4 as stated: every ensure closure ends with the outcome
\* of the body it wraps.
C4_Original ==
    \A m \in AllRuns : \A e \in StepEvents(m) :
       e.op = "ensure" => (e.called /\ e.out = e.prev)

\* C4 (amended): for e.ensure(f), a run invokes f once and only after e's
\* body has finished, whether the body returned or raised; when f returns
\* normally the closure returns the body's value or re-raises the body's
\* error, when f raises (or is cancelled while awaited) that error is raised
\* instead; an ensure made last hands its outcome to run.
C4_EnsureOnce ==
    \A m \in AllRuns : \A p \in EnsureAt :
       /\ Cardinality(CallsOf(m, p)) <= 1
       /\ m.status = "done" => Cardinality(CallsOf(m, p)) = 1
       /\ \A j \in CallsOf(m, p) : \E i \in StepsOf(m, p - 1) : i < j
       /\ \A j \in StepsOf(m, p) :
             LET e == m.log[j] IN
             /\ e.called
             /\ e.res.k = "val" => e.out = e.prev
             /\ e.res.k = "exc" => e.out = e.res
             /\ e.res = Pending => e.out = Raise(CancelledError)
             /\ (m.status = "done" /\ p = Len(eff.chain)) => m.cur = Reported(m, e.out)

\* A finished run whose body raised, whose cleanup was called and returned,
\* and which re-raised the body's error.
C4_Witness ==
    \E m \in Done : \E p \in EnsureAt : \E j \in StepsOf(m, p) :
       /\ p = Len(eff.chain)
       /\ m.log[j].prev = Raise(Exc("TypeError", 1))
       /\ m.log[j].called /\ m.log[j].res = Ret(None)
       /\ m.cur = Raise(Exc("TypeError", 1))

\* The effect run alone, without a deadline, every await waited out.
RECURSIVE RunToEnd(_)
RunToEnd(m) ==
    IF m.status = "done" THEN m ELSE RunToEnd(Wake([m EXCEPT !.clock = m.wake]))
Alone(e) ==
    RunToEnd(IF e.t = "Eff" THEN Eff_run(e, FALSE, 0, 0) ELSE EffSync_run(e, 0))

\* The runs with a deadline that nobody cancelled from outside.
TimedDone == {m \in Done : m.timed /\ ~m.cancelled}

\* C5: Eff.run(delay) raises TimeoutError whenever the computation, run
\* alone, takes longer than delay to complete, and returns its normal
\* outcome whenever it takes less.
C5_Original ==
    \A m \in TimedDone :
       LET a == Alone(eff) IN
       /\ a.clock > m.delay => m.cur = Raise(TimeoutError)
       /\ a.clock < m.delay => m.cur = a.cur

\* C6: a run of an Eff chain that was unwound by its timeout or by
\* cancellation has called the cleanup of every ensure in the chain before
\* it ended, the ensure closures that received the CancelledError included.
C6_CleanupOnUnwind ==
    \A m \in AllRuns :
       /\ \A e \in StepEvents(m) :
             (e.op = "ensure" /\ e.prev = Raise(CancelledError)) => e.called
       /\ (m.status = "done" /\ (m.expired \/ m.cancelled)) =>
             \A p \in EnsureAt : CallsOf(m, p) # {}

\* A run that timed out, called its cleanup on the way out and raised
\* TimeoutError.
C6_Witness ==
    \E m \in Done :
       /\ m.expired /\ m.cur = Raise(TimeoutError)
       /\ \E e \in StepEvents(m) :
             e.op = "ensure" /\ e.prev = Raise(CancelledError) /\ e.called

\* C7: after k calls of run on one effect the body has been invoked k times,
\* once by each run; a run that was neither timed out nor cancelled ends
\* with the outcome and the number of calls of a run of the effect alone,
\* whatever other runs of the same effect were interleaved with it.
C7_RunsAreIndependent ==
    /\ ncalls.body = nruns
    /\ \A m \in AllRuns : m.status # "ready" => m.calls.body = 1
    /\ \A m \in Done :
          (~m.expired /\ ~m.cancelled) =>
             (m.cur = Alone(eff).cur /\ m.calls = Alone(eff).calls)

\* Two runs of one effect, the second started while the first was suspended,
\* have both finished.
C7_Witness ==
    /\ nruns >= 2 /\ Len(runs) = 2
    /\ \A i \in DOMAIN runs : runs[i].status = "done" /\ runs[i].calls.fn >= 1

\* The runs no timeout and no cancellation cut short.
Undisturbed == {m \in AllRuns : ~m.expired /\ ~m.cancelled}
CatchAt == {p \in DOMAIN eff.chain : eff.chain[p].op = "catch"}
IsOrdinary(o) == o.k = "exc" /\ IsException(o.v) /\ o.v.kind # "MonadError"

\* C8: for e.catch(f), when e's body raised an error that is neither a
\* MonadError nor a cancellation/interrupt, f is invoked once with that error
\* and the closure ends with f's outcome as it is, or, when f returned an
\* effect of the same class, with the outcome of running that effect; when
\* the body raised nothing f is not invoked and the body's result is
\* returned; an error raised by a closure chained after the catch does not
\* reach f and, raised by the last closure, is what run raises.
C8_CatchHandler ==
    \A m \in Undisturbed :
       /\ \A e \in StepEvents(m) :
             e.op = "catch" =>
                /\ e.prev.k = "val" => (~e.called /\ e.out = e.prev)
                /\ IsOrdinary(e.prev) =>
                      /\ e.called /\ e.res = Apply(e.fn, e.prev.v)
                      /\ e.out = IF e.res.k = "val" /\ e.res.v.t = e.cls
                                 THEN Alone(e.res.v).cur ELSE e.res
       /\ \A p \in CatchAt :
             /\ Cardinality(CallsOf(m, p)) <= 1
             /\ \A q \in (p + 1)..Len(eff.chain) : \A j \in StepsOf(m, q) :
                   (m.log[j].out.k = "exc" /\ m.log[j].prev.k = "val") =>
                      /\ \A i \in CallsOf(m, p) : i < j
                      /\ (m.status = "done" /\ q = Len(eff.chain)) => m.cur = m.log[j].out

\* A finished run whose handler was given the TypeError of the body and
\* returned an Eff, which catch ran.
C8_Witness ==
    \E m \in Done : \E e \in StepEvents(m) :
       /\ e.op = "catch" /\ e.d = 1 /\ e.p = Len(eff.chain)
       /\ e.prev = Raise(Exc("TypeError", 1))
       /\ e.res.k = "val" /\ e.res.v.t = "Eff"
       /\ e.out = Ret(Exc("TypeError", 1)) /\ m.cur = e.out

IsGood(o) == o.k = "val" /\ ~is_bad(o.v)

\* C9: at run time, when the previous result is not Left/Nothing, the
\* closure applies its function; map and map_to_thread raise MonadError when
\* the function returned an effect of the chain's class and otherwise end
\* with what the function returned or raised; bind and bind_to_thread raise
\* MonadError when the function returned anything else than an effect of the
\* chain's class and otherwise end with the outcome of running that effect.
C9_RunTimeContracts ==
    \A m \in Undisturbed : \A e \in StepEvents(m) :
       (e.op \in Transformers /\ IsGood(e.prev)) =>
          /\ e.called /\ e.res = Apply(e.fn, e.prev.v)
          /\ e.res.k = "exc" => e.out = e.res
          /\ (e.res.k = "val" /\ e.op \in {"map", "map_to_thread"}) =>
                e.out = IF e.res.v.t = e.cls THEN Raise(MonadError) ELSE e.res
          /\ (e.res.k = "val" /\ e.op \in {"bind", "bind_to_thread"}) =>
                e.out = IF e.res.v.t # e.cls THEN Raise(MonadError)
                        ELSE Alone(e.res.v).cur

\* A finished run in which map_to_thread was given an Eff by its function,
\* and one in which bind got the effect it needs, are told apart by the
\* outcome: here the former, MonadError.
C9_Witness ==
    \E m \in Done : \E e \in StepEvents(m) :
       /\ e.op = "map_to_thread" /\ IsGood(e.prev)
       /\ e.res.k = "val" /\ e.res.v.t = "Eff"
       /\ e.out = Raise(MonadError) /\ m.cur = Raise(MonadError)

\* C10: when the Eff returned by the function of bind_to_thread has an
\* asynchronous body, running the chain raises MonadError.
C10_Original ==
    \A m \in AllRuns : \A e \in StepEvents(m) :
       (e.op = "bind_to_thread" /\ e.res.k = "val" /\ e.res.v.t = "Eff"
          /\ e.res.v.chain[1].fn.async) => e.out = Raise(MonadError)

\* The functions of the library that are coroutine functions.
AllFns == {st.fn : st \in Family(lib).steps} \cup Family(lib).bodies
Coroutines == {fn \in AllFns : fn.async}
SyncOnly(cls, op) == cls = "EffSync" \/ op \in {"map_to_thread", "bind_to_thread"}

\* What the sync-only constructor and combinators answer to function fn.
SyncOnlyCalls(fn) ==
    IF Family(lib).cls = "EffSync"
    THEN {EffSync_init(fn)} \cup
         (IF eff = NoEff THEN {}
          ELSE {EffSync_map(eff, fn), EffSync_bind(eff, fn), EffSync_catch(eff, fn),
                EffSync_ensure(eff, fn)})
    ELSE IF eff = NoEff THEN {}
         ELSE {Eff_map_to_thread(eff, fn), Eff_bind_to_thread(eff, fn)}

\* C11: EffSync(body), EffSync.map/bind/catch/ensure(f) and
\* Eff.map_to_thread/bind_to_thread(f) called with a coroutine function raise
\* MonadError at the call: they make no new effect and invoke nothing, so no
\* chain ever holds a coroutine function in a sync-only position, and when
\* the last call was refused nothing has been invoked yet.
C11_SyncOnlyAtBuild ==
    /\ \A fn \in Coroutines : \A b \in SyncOnlyCalls(fn) :
          b.raised /\ b.calls = NoCalls /\ b.eff \in {eff, NoEff}
    /\ eff # NoEff =>
          \A p \in DOMAIN eff.chain :
             SyncOnly(eff.t, eff.chain[p].op) => ~eff.chain[p].fn.async
    /\ err => (ncalls = NoCalls /\ runs = <<>>)

\* A combinator call on an effect that has a closure already was refused.
C11_Witness ==
    /\ err /\ eff # NoEff /\ Len(eff.chain) >= 2
    /\ Coroutines # {} /\ ncalls = NoCalls

\* C12: Eff.to_task raises MonadError when self.effect is not a coroutine
\* function (Eff.of(v), Eff(sync_fn)) and then makes no task and invokes
\* nothing; otherwise it returns a task that is scheduled and has invoked
\* nothing yet, and the task, once it has run undisturbed to its end, holds
\* the result the effect yields when run.
C12_ToTask ==
    /\ (eff # NoEff /\ eff.t = "Eff") =>
          LET b == Eff_to_task(eff, now) IN
          IF Len(eff.chain) = 1 /\ ~eff.chain[1].fn.async
          THEN b.raised /\ b.task = Pending
          ELSE ~b.raised /\ b.task.status = "ready" /\ b.task.calls = NoCalls
               /\ b.task.log = <<>>
    /\ terr => (Len(eff.chain) = 1 /\ ~eff.chain[1].fn.async)
    /\ \A m \in AllRuns :
          m.task =>
             /\ ~(Len(eff.chain) = 1 /\ ~eff.chain[1].fn.async)
             /\ m.status = "ready" => (m.calls = NoCalls /\ m.log = <<>>)
             /\ (m.status = "done" /\ ~m.cancelled) => m.cur = Alone(eff).cur

\* The test's task: Eff(eff_async).to_task() has finished with 3.
C12_Witness ==
    \E m \in Done :
       /\ m.task /\ eff.chain = <<Step("body", asyncBody)>>
       /\ m.cur = Ret(Num(3))

\* The synchronous function that returns what fn returns.
SyncTwin(fn) == [fn EXCEPT !.async = FALSE, !.dur = 0]
Accepting == {"map", "bind", "catch", "ensure"}

\* The chain with every asynchronous function given to map, bind, catch or
\* ensure replaced by its synchronous twin.
SyncChain(e) ==
    EffObj(e.t, [p \in DOMAIN e.chain |->
                    IF e.chain[p].op \in Accepting
                    THEN Step(e.chain[p].op, SyncTwin(e.chain[p].fn))
                    ELSE e.chain[p]])

HasAsyncStep(e) ==
    \E p \in DOMAIN e.chain : e.chain[p].op \in Accepting /\ e.chain[p].fn.async

----------------------------------------------------------------------------
(* Claims about Triple, over the calls a chain has made (tr.hist).          *)

Calls == {tr.hist[i] : i \in DOMAIN tr.hist}
MapBind == {"map", "bind"}

\* C14: map and bind called on a Left or a Nothing return the receiver
\* itself and do not invoke the function, whatever the function is; so once
\* a call of a chain of map/bind calls has returned a Left or a Nothing,
\* that value is what every later call returns and the chain ends with,
\* and no function is invoked after it.
C14_BadIsAbsorbing ==
    /\ \A h \in Calls :
          (h.op \in MapBind /\ is_bad(h.recv)) => (h.out = Ret(h.recv) /\ h.calls = 0)
    /\ \A i \in DOMAIN tr.hist :
          (/\ tr.hist[i].out.k = "val" /\ is_bad(tr.hist[i].out.v)
           /\ \A j \in (i + 1)..Len(tr.hist) : tr.hist[j].op \in MapBind) =>
             /\ tr.acc = tr.hist[i].out.v /\ ~tr.raised
             /\ \A j \in (i + 1)..Len(tr.hist) :
                   tr.hist[j].out = tr.hist[i].out /\ tr.hist[j].calls = 0

\* Right(1).bind(lambda x: Left(x)) followed by a map with a coroutine
\* function: the chain ends with the Left.
C14_Witness ==
    /\ Len(tr.hist) = 2
    /\ tr.hist[1].op = "bind" /\ tr.hist[1].recv = Right(Num(1))
    /\ tr.hist[1].out = Ret(Left(Num(1)))
    /\ tr.hist[2].op = "map" /\ tr.hist[2].x = tAsync
    /\ tr.acc = Left(Num(1)) /\ tr.calls = 1

Rejected(fn) == fn.t = "fn" /\ (fn.async \/ fn.impure)

\* C15: Right(v).map(f) raises MonadError without invoking f when f is a
\* coroutine function or is marked impure, raises MonadError when f(v) is a
\* Triple, and otherwise returns a Right holding f(v) (an error raised by f
\* itself passes through).
C15_RightMap ==
    \A h \in Calls :
       (h.op = "map" /\ h.recv.t = "Right") =>
          IF Rejected(h.x) THEN h.out = Raise(MonadError) /\ h.calls = 0
          ELSE LET r == CallFn(h.x, <<h.recv.v>>) IN
               /\ h.calls = 1
               /\ h.out = IF r.k = "exc" THEN r
                          ELSE IF IsTriple(r.v) THEN Raise(MonadError)
                          ELSE Ret(Right(r.v))

\* The three violations of test_chains_violations are told apart by the
\* number of invocations: here Right(1).map(fn_monadic), invoked once.
C15_Witness ==
    \E h \in Calls :
       /\ h.op = "map" /\ h.recv = Right(Num(1)) /\ h.x = tUnit
       /\ h.out = Raise(MonadError) /\ h.calls = 1

\* C16: Right(v).bind(f) raises MonadError whenever f(v) is not a Triple,
\* and returns f(v) itself when it is one.
C16_Original ==
    \A h \in Calls :
       (h.op = "bind" /\ h.recv.t = "Right" /\ ~Rejected(h.x)) =>
          LET r == CallFn(h.x, <<h.recv.v>>) IN
          r.k = "val" => h.out = IF IsTriple(r.v) THEN r ELSE Raise(MonadError)

\* C17: recover_from_left invokes its function only on a Left, with the
\* payload, and recover_from_nothing only on a Nothing, with no argument;
\* the call returns what the function returned when that is a Triple and
\* Right of it otherwise (a function that is a coroutine function or marked
\* impure is refused with MonadError and not invoked); on any other variant
\* both return the receiver and invoke nothing.
C17_Recover ==
    \A h \in Calls :
       (h.op \in {"recover_from_left", "recover_from_nothing"}) =>
          IF (h.op = "recover_from_left" /\ h.recv.t = "Left")
             \/ (h.op = "recover_from_nothing" /\ h.recv.t = "Nothing")
          THEN IF Rejected(h.x) THEN h.out = Raise(MonadError) /\ h.calls = 0
               ELSE LET r == CallFn(h.x, IF h.recv.t = "Left" THEN <<h.recv.v>> ELSE <<>>) IN
                    /\ h.calls = 1
                    /\ h.out = IF r.k = "exc" \/ IsTriple(r.v) THEN r ELSE Ret(Right(r.v))
          ELSE h.out = Ret(h.recv) /\ h.calls = 0

\* Left(7).recover_from_left(lambda x: Right(x + 1)) gave Right(8), and the
\* recover_from_nothing that followed left it alone.
C17_Witness ==
    /\ Len(tr.hist) = 2
    /\ tr.hist[1].op = "recover_from_left" /\ tr.hist[1].recv = Left(Num(7))
    /\ tr.hist[1].x = tIncr /\ tr.hist[1].out = Ret(Right(Num(8)))
    /\ tr.hist[2].op = "recover_from_nothing" /\ tr.hist[2].calls = 0
    /\ tr.acc = Right(Num(8))

\* The position of the first Left/Nothing in a sequence of arguments, 0 if
\* there is none.
FirstBadAt(args) ==
    IF \E i \in DOMAIN args : is_bad(args[i])
    THEN CHOOSE i \in DOMAIN args : is_bad(args[i]) /\ \A j \in 1..(i - 1) : ~is_bad(args[j])
    ELSE 0

Payload(v) == IF v.t = "Right" THEN v.v ELSE v
Payloads(args) == [i \in DOMAIN args |-> Payload(args[i])]

\* C18, as the specification states it: Right(g).ap(w) returns w itself when
\* w is Left or Nothing, whatever g is, and otherwise g(w.value), wrapped in
\* Right unless it is a Triple; Left and Nothing return the receiver.
C18_Original ==
    \A h \in Calls :
       h.op = "ap" =>
          IF h.recv.t # "Right" THEN h.out = Ret(h.recv) /\ h.calls = 0
          ELSE IF is_bad(h.x) THEN h.out = Ret(h.x) /\ h.calls = 0
          ELSE h.out = WrapUnlessTriple(Call(h.recv.v, <<h.x.v>>)).out

\* C18: Right(g).ap(w) raises MonadError, whatever w is, when g is a
\* coroutine function or marked impure; otherwise it returns w itself when w
\* is Left or Nothing (g is not invoked) and g(w.value), wrapped in Right
\* unless it is a Triple, when w is a Right; Left(e).ap(w) and Nothing().ap(w)
\* return the receiver for every w.
C18_Ap ==
    \A h \in Calls :
       h.op = "ap" =>
          IF h.recv.t # "Right" THEN h.out = Ret(h.recv) /\ h.calls = 0
          ELSE IF Rejected(h.recv.v) THEN h.out = Raise(MonadError) /\ h.calls = 0
          ELSE IF is_bad(h.x) THEN h.out = Ret(h.x) /\ h.calls = 0
          ELSE h.recv.v.t = "fn" =>
                  LET r == CallFn(h.recv.v, <<h.x.v>>) IN
                  /\ h.calls = 1
                  /\ h.out = IF r.k = "exc" \/ IsTriple(r.v) THEN r ELSE Ret(Right(r.v))

\* Right(fn_async).ap(Left(8)) raised MonadError instead of returning Left(8).
C18_Witness ==
    \E h \in Calls :
       /\ h.op = "ap" /\ h.recv = Right(tAsync) /\ h.x = Left(Num(8))
       /\ h.out = Raise(MonadError) /\ h.calls = 0

\* C19, as the specification states it: lift returns the first Left/Nothing
\* among its arguments, and the function is never invoked when there is one.
C19_Original ==
    \A h \in Calls :
       (h.op = "lift" /\ FirstBadAt(h.x.args) # 0) =>
          h.out = Ret(h.x.args[FirstBadAt(h.x.args)]) /\ h.calls = 0

\* C19: TUtils.lift(f, a1, ..., an) folds ap over the arguments from left to
\* right, starting from Right(f).  For f = curry(g), g of p parameters: when
\* the first Left/Nothing is a_k with k <= p, lift returns a_k unchanged
\* whatever follows it and g is not invoked; when a1..ap are all Right, g is
\* invoked once, with their payloads, also when a later argument is
\* Left/Nothing, and with n = p the result is Right(g(payloads)).  When f is
\* a coroutine function or marked impure, lift raises MonadError.
C19_Lift ==
    \A h \in Calls :
       h.op = "lift" =>
          LET f == h.x.f
              a == h.x.args
              k == FirstBadAt(a)
          IN IF Rejected(f) THEN h.out = Raise(MonadError) /\ h.calls = 0
             ELSE f.t = "Curry" =>
                  LET p == f.need IN
                  /\ (k # 0 /\ k <= p) => (h.out = Ret(a[k]) /\ h.calls = 0)
                  /\ (Len(a) >= p /\ (k = 0 \/ k > p)) => h.calls = 1
                  /\ (Len(a) < p /\ k = 0) => h.calls = 0
                  /\ (Len(a) = p /\ k = 0) => h.out = Ret(Right(Num(Sum(Payloads(a)))))

\* lift(curry(lambda a, b: a + b), Right(1), Left(8), Nothing()) gave Left(8).
C19_Witness ==
    \E h \in Calls :
       /\ h.op = "lift" /\ h.x.f = curry(tSum(2))
       /\ h.x.args = <<Right(Num(1)), Left(Num(8)), Nothing>>
       /\ h.out = Ret(Left(Num(8))) /\ h.calls = 0

\* C20: a function wrapped by TUtils.closer, called with a Left or Nothing
\* among its arguments, returns the first of them (the positional arguments
\* come before the named ones) and does not invoke the function; otherwise
\* it invokes the function once, each Right replaced by its payload and each
\* other value passed as it is.
C20_Closer ==
    \A h \in Calls :
       h.op = "closer" =>
          LET all == h.x.args \o h.x.kwargs
              b == FirstBadAt(all)
          IN IF b # 0 THEN h.out = Ret(all[b]) /\ h.calls = 0
             ELSE h.calls = 1 /\ h.out = Ret(Num(Sum(Payloads(all))))

\* closer(lambda a, b: a + b)(Right(2), b=1) gave 3.
C20_Witness ==
    \E h \in Calls :
       /\ h.op = "closer" /\ h.x.args = <<Right(Num(2))>> /\ h.x.kwargs = <<Num(1)>>
       /\ h.out = Ret(Num(3)) /\ h.calls = 1

----------------------------------------------------------------------------
(* Further claims about Eff and EffSync.                                    *)

\* C22, as the specification states it: when the previous result is
\* Right(x), the function of map is applied to the payload x.
C22_Original ==
    \A m \in AllRuns : \A e \in StepEvents(m) :
       (e.op = "map" /\ e.prev.k = "val" /\ e.prev.v.t = "Right") =>
          (e.called /\ e.res = Apply(e.fn, e.prev.v.v))

\* C22: in an Eff/EffSync chain, when the previous result is not
\* Left/Nothing, map invokes its function on that result as it is: when the
\* previous result is Right(x) the function receives the Right container,
\* not x, so that lambda x: x + 1 after Right(1) raises TypeError.
C22_MapGetsContainer ==
    \A m \in Undisturbed : \A e \in StepEvents(m) :
       (e.op = "map" /\ IsGood(e.prev)) =>
          /\ e.called /\ e.res = Apply(e.fn, e.prev.v)
          /\ (e.prev.v.t = "Right" /\ e.fn = inc) => e.out = Raise(Exc("TypeError", 0))

\* Eff.of(Right(1)).map(lambda x: x + 1) has been run and raised TypeError.
C22_Witness ==
    \E m \in Done : \E e \in StepEvents(m) :
       /\ e.cls = "Eff" /\ e.op = "map" /\ e.fn = inc /\ e.prev = Ret(Right(Num(1)))
       /\ e.out = Raise(Exc("TypeError", 0)) /\ m.cur = e.out

IsTimeoutError(o) == o.k = "exc" /\ o.v.kind = "TimeoutError"

\* C23, as the specification states it: a TimeoutError raised while the body
\* wrapped by catch executes is not given to the handler and leaves the
\* catch as it came.
C23_Original ==
    \A m \in AllRuns : \A e \in StepEvents(m) :
       (e.op = "catch" /\ IsTimeoutError(e.prev)) => (~e.called /\ e.out = e.prev)

\* C23: the timeout of run(delay) is never swallowed by catch: it reaches
\* the catch as the CancelledError of the cancelled task, the handler is not
\* invoked, and run raises TimeoutError when that catch is the last closure;
\* a TimeoutError raised by the wrapped body itself is an ordinary Exception
\* and is given to the handler.
C23_TimeoutAndCatch ==
    \A m \in AllRuns : \A e \in StepEvents(m) :
       e.op = "catch" =>
          /\ (m.expired /\ e.prev = Raise(CancelledError)) =>
                /\ ~e.called /\ e.out = e.prev
                /\ (m.status = "done" /\ ~m.cancelled /\ e.d = 1 /\ e.p = Len(eff.chain)) =>
                      m.cur = Raise(TimeoutError)
          /\ (IsTimeoutError(e.prev) /\ ~m.expired /\ ~m.cancelled) =>
                (e.called /\ e.res = Apply(e.fn, e.prev.v))

\* A run whose body raised TimeoutError and whose handler turned it into 10.
C23_Witness ==
    \E m \in Done : \E e \in StepEvents(m) :
       /\ e.op = "catch" /\ e.prev = Raise(Exc("TimeoutError", 1)) /\ e.called
       /\ e.fn = const(Num(10)) /\ e.p = Len(eff.chain) /\ m.cur = Ret(Num(10))

\* The calls of run m, as positions of its log.
CallsIn(m) == {j \in DOMAIN m.log : CallAt(m, j)}

\* The closure that made call j was unwound while it awaited its function.
Interrupted(m, j) ==
    \E i \in DOMAIN m.log :
       /\ i > j /\ StepAt(m, i) /\ m.log[i].d = m.log[j].d /\ m.log[i].p = m.log[j].p
       /\ m.log[i].called /\ m.log[i].res = Pending

\* The function of call j, offloaded to a thread, was left running there.
Abandoned(m, j, k) ==
    \E i \in (j + 1)..(k - 1) :
       m.log[i].ev = "abandon" /\ m.log[i].d = m.log[j].d /\ m.log[i].p = m.log[j].p

\* Within one effect, a closure calls its function only after the closure
\* before it has returned or raised.
InChainOrder(m) ==
    \A j, k \in CallsIn(m) :
       (j < k /\ m.log[j].d = m.log[k].d /\ m.log[j].p < m.log[k].p) =>
          \E i \in (j + 1)..(k - 1) :
             StepAt(m, i) /\ m.log[i].d = m.log[j].d /\ m.log[i].p = m.log[j].p

\* C24, as the specification states it: the steps of a run execute in chain
\* order and no user function is started while an earlier one of the same
\* run is still executing (an awaited coroutine that was cancelled has
\* stopped; a function in a thread has not).
C24_Original ==
    \A m \in AllRuns :
       /\ InChainOrder(m)
       /\ \A j, k \in CallsIn(m) :
             (j < k /\ m.log[k].at < m.log[j].until) =>
                (Interrupted(m, j) /\ m.log[j].how # "thread")

\* C24: within one run the closures execute in chain order, a closure
\* calling its function only after the closure before it has returned or
\* raised, and in a run that is neither timed out nor cancelled no function
\* starts before the earlier functions are over; when a timeout or a
\* cancellation unwinds the run while a function offloaded to a thread is
\* executing, that function is left running in its thread while the
\* cleanups of the ensure closures after it are invoked.
C24_InOrder ==
    \A m \in AllRuns :
       /\ InChainOrder(m)
       /\ \A j, k \in CallsIn(m) :
             (j < k /\ m.log[k].at < m.log[j].until) =>
                /\ m.expired \/ m.cancelled
                /\ Interrupted(m, j)
                /\ m.log[k].op = "ensure"
                /\ m.log[j].how = "thread" => Abandoned(m, j, k)

\* A run timed out while map_to_thread's function was in its thread, and
\* the cleanup of the ensure after it was invoked before that function ended.
C24_Witness ==
    \E m \in Done : \E j, k \in CallsIn(m) :
       /\ j < k /\ m.log[j].op = "map_to_thread" /\ m.log[k].op = "ensure"
       /\ m.log[k].at < m.log[j].until /\ Abandoned(m, j, k)

\* C28: when the cleanup given to ensure raises, the ensure closure raises
\* the cleanup's error, whether the body had returned a value (discarded) or
\* raised an error (replaced); the cleanup has then been invoked once, and
\* when the ensure is the last closure that error is what run raises.
C28_CleanupRaises ==
    \A m \in AllRuns : \A p \in EnsureAt : \A j \in StepsOf(m, p) :
       LET e == m.log[j] IN
       (e.res.k = "exc") =>
          /\ e.prev.k \in {"val", "exc"}
          /\ e.out = e.res /\ e.res = Apply(e.fn, None)
          /\ Cardinality(CallsOf(m, p)) = 1
          /\ (m.status = "done" /\ p = Len(eff.chain)) => m.cur = e.res

\* The body raised one TypeError, the cleanup another, and run raised the
\* cleanup's.
C28_Witness ==
    \E m \in Done : \E p \in EnsureAt : \E j \in StepsOf(m, p) :
       /\ p = Len(eff.chain) /\ eff.t = "Eff"
       /\ m.log[j].prev = Raise(Exc("TypeError", 1))
       /\ m.log[j].res = Raise(Exc("TypeError", 4))
       /\ m.cur = Raise(Exc("TypeError", 4))

\* The same chain written with the other class: the closures are those of
\* cls, and a function that makes an effect makes one of cls.
InClass(fn, cls) ==
    IF fn.beh = "of" THEN [fn EXCEPT !.val = [fn.val EXCEPT !.cls = cls]] ELSE fn
As(e, cls) ==
    EffObj(cls, [p \in DOMAIN e.chain |-> Step(e.chain[p].op, InClass(e.chain[p].fn, cls))])

\* Chains of of/map/bind/catch/ensure over synchronous bodies and functions.
Shared == {"body", "map", "bind", "catch", "ensure"}
IsSyncOnly(e) ==
    \A p \in DOMAIN e.chain :
       /\ e.chain[p].op \in Shared /\ ~e.chain[p].fn.async
       /\ e.chain[p].fn.beh = "of" => ~e.chain[p].fn.val.async
HandsBackAwaitable(e) == \E p \in DOMAIN e.chain : e.chain[p].fn.beh = "defer"

\* The invocations of a run, in order: which closure of which effect.
IsCallEvent(ev) == ev.ev = "call"
Invocations(m) ==
    LET c == SelectSeq(m.log, IsCallEvent) IN [i \in DOMAIN c |-> <<c[i].d, c[i].p, c[i].op>>]

SameRun(a, b) == a.cur = b.cur /\ a.calls = b.calls /\ Invocations(a) = Invocations(b)

\* C29, as the specification states it: every chain of synchronous bodies
\* and functions yields the same with EffSync.run() and the awaited
\* Eff.run().
C29_Original ==
    (eff # NoEff /\ IsSyncOnly(eff)) =>
       SameRun(Alone(As(eff, "Eff")), Alone(As(eff, "EffSync")))

\* C29: a chain of of/map/bind/catch/ensure over synchronous bodies and
\* functions none of which hands back an awaitable yields the same outcome
\* with EffSync.run() and with the awaited Eff.run() and invokes the same
\* functions in the same order, and so does every undisturbed run made of
\* it; when the body hands back an awaitable, Eff awaits it and goes on with
\* what it yields while EffSync goes on with the awaitable itself.
C29_SyncEquivalence ==
    (eff # NoEff /\ IsSyncOnly(eff)) =>
       LET a == Alone(As(eff, "Eff"))
           b == Alone(As(eff, "EffSync"))
       IN  /\ ~HandsBackAwaitable(eff) =>
                /\ SameRun(a, b)
                /\ \A m \in Done :
                      (~m.expired /\ ~m.cancelled) => (SameRun(m, a) /\ SameRun(m, b))
           /\ eff.chain = <<Step("body", deferred)>> =>
                (a.cur = Ret(deferred.val) /\ b.cur = Ret([t |-> "coroutine"]))

\* EffSync(raising body).catch(lambda e: EffSync.of(e)).ensure(cleanup) has
\* been run: the handler's effect was run and the cleanup called, as the
\* Eff chain does.
C29_Witness ==
    \E m \in Done :
       /\ eff.t = "EffSync"
       /\ eff.chain = <<Step("body", raiser("TypeError", 1)), Step("catch", ofEffSync),
                        Step("ensure", noop)>>
       /\ m.cur = Ret(Exc("TypeError", 1)) /\ SameRun(m, Alone(As(eff, "Eff")))
       /\ Len(Invocations(m)) = 4

----------------------------------------------------------------------------
(* Further claims about Triple and TUtils.                                  *)

\* C21: a function wrapped by TUtils.from_try returns Right(result) when
\* the function returns and Left(error) when it raises an ordinary error,
\* having invoked it once; a MonadError, a KeyboardInterrupt or a
\* CancelledError raised by the function is raised to the caller; from_try
\* raises MonadError, and invokes nothing, when given a coroutine function.
C21_FromTry ==
    \A h \in Calls :
       h.op = "from_try" =>
          IF h.x.f.async THEN ~h.x.made /\ h.out = Raise(MonadError) /\ h.calls = 0
          ELSE h.x.made =>
               LET r == CallFn(h.x.f, h.x.args) IN
               /\ h.calls = 1
               /\ r.k = "val" => h.out = Ret(Right(r.v))
               /\ r.k = "exc" =>
                     h.out = IF r.v.kind \in {"MonadError", "KeyboardInterrupt", "CancelledError"}
                             THEN r ELSE Ret(Left(r.v))

\* The wrapped function raised MonadError and the caller got it.
C21_Witness ==
    \E h \in Calls :
       /\ h.op = "from_try" /\ h.x.f = tRaise("MonadError") /\ h.x.made
       /\ h.out = Raise(MonadError) /\ h.calls = 1

\* The Triple values a chain has met: what it started from, what was given
\* to its calls and what they returned.
Met ==
    {tr.acc} \cup {h.recv : h \in Calls} \cup
    {h.out.v : h \in {g \in Calls : g.out.k = "val"}}

\* C25: no Right that a chain started from or that a call returned holds a
\* Triple as its payload.
C25_Original == \A v \in Met : v.t = "Right" => ~IsTriple(v.v)

\* C26: Right(v).get_or_else(x) is v, Left(e).get_or_else(x) and
\* Nothing().get_or_else(x) are x, and TUtils.unit(v).get_or_else(x) is v.
C26_GetOrElse ==
    /\ \A h \in Calls :
          h.op = "get_or_else" =>
             /\ h.calls = 0
             /\ h.recv.t = "Right" => h.out = Ret(h.recv.v)
             /\ h.recv.t \in {"Left", "Nothing"} => h.out = Ret(h.x)
    /\ \A i \in DOMAIN tr.hist :
          (i > 1 /\ tr.hist[i].op = "get_or_else" /\ tr.hist[i - 1].op = "unit") =>
             tr.hist[i].out = Ret(tr.hist[i - 1].x.value)

\* TUtils.unit(0).get_or_else(None) gave 0, the falsy payload.
C26_Witness ==
    /\ Len(tr.hist) = 2
    /\ tr.hist[1].op = "unit" /\ tr.hist[1].x.value = Num(0)
    /\ tr.hist[2].op = "get_or_else" /\ tr.hist[2].x = None
    /\ tr.hist[2].out = Ret(Num(0))

-----------------------------------------------------------------------------
\* Claims about curry and async_curry

\* The parameters of the receiver that a call leaves unbound.
Unbound(h) ==
    LET b == bind_partial(h.before.sig, h.args, h.kwargs) IN
    IF h.args = <<>> /\ DOMAIN h.kwargs = {}
    THEN {n \in NamesFrom(h.before.sig, 1) : ~HasDefault(h.before.fn, n)}
    ELSE NamesFrom(h.before.sig, 1) \ DOMAIN b.v

\* Do the arguments of the call fit the remaining signature?
Fits(h) == bind_partial(h.before.sig, h.args, h.kwargs).k = "val"

\* C27 (as stated; the code violates it): a call whose arguments do not fit
\* the remaining signature raises CurryBadArguments; any other call invokes
\* the original function exactly when it leaves no parameter unbound, and
\* its value is then the value of the function for the arguments given so
\* far, each at the parameter it was bound to; otherwise the call invokes
\* nothing and returns a curried object.
C27_Original ==
    tr.hist # <<>> /\ "recv" \in DOMAIN tr.hist[1] =>
    \A k \in DOMAIN tr.hist :
       LET h == tr.hist[k] IN
       IF ~Fits(h) THEN h.out = Raise(CurryBadArguments) /\ h.calls = 0
       ELSE IF Unbound(h) = {}
       THEN /\ h.calls = 1
            /\ h.out = Ret(List([i \in 1..h.before.fn.arity |-> h.meant[i]]))
       ELSE h.calls = 0 /\ IsCurried(h.out)

\* The values held in a sequence or a mapping.
Held(f) == {f[n] : n \in DOMAIN f}

\* C30: a call of a Curry or AsyncCurry object leaves its positional
\* arguments, named arguments and remaining signature as they were, so every
\* object stays as it was made; a partial application returns a new object;
\* and a call that completes an object gives what it gives on the object as
\* it was made, a list of values that object held, arguments of this call
\* and defaults.
C30_NoMutation ==
    tr.hist # <<>> /\ "recv" \in DOMAIN tr.hist[1] =>
    /\ \A o \in DOMAIN tr.objs : tr.objs[o] = tr.born[o]
    /\ \A k \in DOMAIN tr.hist :
          LET h == tr.hist[k]
              made == tr.born[h.recv]
          IN  /\ h.after = h.before
              /\ h.after.pos = made.pos /\ h.after.named = made.named /\ h.after.sig = made.sig
              /\ IsCurried(h.out) => h.fresh
              /\ h.calls = 1 =>
                    /\ h.out = (IF made.t = "Curry" THEN Curry_call(made, h.args, h.kwargs)
                                 ELSE AsyncCurry_call(made, h.args, h.kwargs)).out
                    /\ h.out.k = "val" =>
                          Held(h.out.v.v) \subseteq
                             Held(made.pos) \cup Held(made.named) \cup Held(h.args)
                                \cup Held(h.kwargs) \cup {made.fn.val}

\* One partially applied object was completed twice with different arguments
\* and gave two different lists.
C30_Witness ==
    /\ tr.hist # <<>> /\ "recv" \in DOMAIN tr.hist[1]
    /\ \E j, k \in DOMAIN tr.hist :
          /\ j < k /\ tr.hist[j].recv = tr.hist[k].recv
          /\ tr.hist[j].before.pos # <<>>
          /\ tr.hist[j].calls = 1 /\ tr.hist[k].calls = 1
          /\ tr.hist[j].out.k = "val" /\ tr.hist[k].out.k = "val"
          /\ tr.hist[j].args # tr.hist[k].args
          /\ tr.hist[j].out # tr.hist[k].out

====
